---- MODULE Spec2Model ----
(***************************************************************************)
(* Danki scheduling engine: the card store (src/danki/engine/db.py), the   *)
(* SM-2+ state machine and the two session builders                        *)
(* (src/danki/engine/scheduler.py), and the study-date computation         *)
(* (src/danki/utils/study_time.py).                                        *)
(*                                                                         *)
(* Number representation.  Python floats are modelled in fixed point:      *)
(*   ease           in hundredths       (2.5  -> 250, 1.3 -> 130)          *)
(*   interval_days  in thousandths of a day (1.0 day -> 1000)              *)
(*   fuzz factor    in hundredths       (0.95 -> 95, 1.05 -> 105)          *)
(* Timestamps are integer seconds, as in the code.  int(x) truncation is   *)
(* \div.  Python's None for an optional integer argument is None == -1.    *)
(* Python lists are 0-based; sequences here are 1-based, so list[i] is     *)
(* seq[i + 1].                                                             *)
(***************************************************************************)
EXTENDS Integers, Sequences, FiniteSets, TLC

(* ------------------------------ bounds --------------------------------- *)
MaxDecks == 2
MaxNotes == 2
MaxCards == 3
MaxReviews == 1
MaxSessionReviews == 2
MaxTicks == 1
MaxSuspends == 1
MaxSuspendReviews == 1
MaxStepReviews == 3
MaxDeepReviews == 15
MaxDeepInterval == 1100
MaxLogReviews == 2
MaxCountReviews == 2
MaxStoreReviews == 1

MaxLapseReviews == 5
MaxAgainReviews == 1
MaxPoolCards == 6
MaxDueReviews == 2
MaxStateReviews == 2
MaxLoopCards == 2
DeckIds == 1..MaxDecks
NoteIds == 1..MaxNotes
CardIds == 1..MaxCards

(* the moment the store is opened: 03:59 local time of day 0, one minute   *)
(* before the study-day rollover                                           *)
StartClock == 14340
(* amounts of time that may pass between two calls: a minute, five days    *)
TickDeltas == {60, 432000}

(* inputs of create_deck(prefs) *)
NewPerDayInputs == {1}
RevPerDayInputs == {1}
StepsInputs == {<<2, 5>>}
(* the step lists of the deck of the single card of InitCard *)
CardStepsInputs == {<<1, 10>>, <<2, 5>>}
(* inputs of build_session(max_new, max_rev) besides None *)
MaxArgInputs == {1}
(* values random.random() * 0.1 + 0.95 is sampled at *)
FuzzFactors == {95, 100, 105}
(* the factor drawn for the gradings between suspensions *)
SuspendFuzzFactors == {100}
(* the factors drawn by calls made at the same time *)
RaceFuzzFactors == {95, 105}
(* the factor drawn for the gradings that are counted *)
CountFuzzFactors == {100}
(* inputs of review(answer_ms), milliseconds *)
AnswerMsInputs == {900, 4000}
(* the one given while a card is taken through the learning steps *)
StepAnswerMsInputs == {4000}

(* --------------------------- program constants ------------------------- *)
None == -1
AGAIN == 1
HARD == 2
GOOD == 3
EASY == 4
Ratings == {AGAIN, HARD, GOOD, EASY}

(* the ratings and the factors drawn where a card is taken to Review, made *)
(* to lapse and taken through the learning steps again                     *)
LapseRatings == {AGAIN, GOOD, EASY}
LapseFuzzFactors == {95, 105}

(* the maxima rebuild_review_queue passes to build_session *)
LoopMaxNew == 10
LoopMaxRev == 50

(* LEARNING_STEPS with a third step *)
LEARNING_STEPS_three == <<1, 10, 20>>

(* LEARNING_STEPS with one step only *)
LEARNING_STEPS_single == <<1>>

LEARNING_STEPS == <<1, 10>>
GRADUATING_INTERVAL_GOOD == 1000
GRADUATING_INTERVAL_EASY == 4000
STARTING_EASE == 250
MINIMUM_EASE == 130
HARD_MULTIPLIER == 120
EASY_MULTIPLIER == 130
LAPSE_MULTIPLIER == 50
OneDay == 1000
DaySeconds == 86400
session_duration == 1800
learning_interval == 3
rollover_hour == 4
MaxFuzzDelay == 300

VARIABLES decks, notes, cards, daily_stats, clock, session, suspended, nticks,
          review_log, calls, merge

vars == <<decks, notes, cards, daily_stats, clock, session, suspended, nticks,
          review_log, calls, merge>>

(* ------------------------------ helpers -------------------------------- *)
Max(a, b) == IF a >= b THEN a ELSE b
Min(a, b) == IF a <= b THEN a ELSE b

(* uuid.uuid4(): a fresh identifier.  Deck and note identifiers are never  *)
(* compared for order, so the smallest unused one stands for any of them.  *)
FreshId(Ids, used) == CHOOSE i \in Ids \ used : \A j \in Ids \ used : i <= j

(* create_deck's default preferences, used when prefs is None *)
DefaultPrefs ==
  [new_per_day |-> 10, rev_per_day |-> 100, steps_min |-> <<1, 10>>,
   bidirectional_cards |-> TRUE]

NoPrefs == [none |-> TRUE]

PrefsInputs ==
  [new_per_day : NewPerDayInputs, rev_per_day : RevPerDayInputs,
   steps_min : StepsInputs, bidirectional_cards : BOOLEAN]

CardPrefsInputs ==
  [new_per_day : NewPerDayInputs, rev_per_day : RevPerDayInputs,
   steps_min : CardStepsInputs, bidirectional_cards : {FALSE}]

(* inputs of create_deck(prefs) where preferences are stored and updated:  *)
(* the dict of add_sample_cards.py, which has no bidirectional_cards key,  *)
(* and one with a negative limit and no learning step                      *)
SamplePrefs == [new_per_day |-> 5, rev_per_day |-> 20, steps_min |-> <<10, 1440>>]
CreatePrefsInputs ==
  {NoPrefs, SamplePrefs,
   [new_per_day |-> -2, rev_per_day |-> 20, steps_min |-> <<>>,
    bidirectional_cards |-> FALSE]}
(* inputs of update_deck_preferences(preferences) *)
PartialPrefsInputs ==
  {[new_per_day |-> 3], [rev_per_day |-> 7],
   [new_per_day |-> 3, rev_per_day |-> 7], [rev_per_day |-> -7],
   [steps_min |-> <<>>]}
(* inputs of create_deck(prefs) and update_deck_preferences(preferences)   *)
(* where notes are added                                                   *)
StorePrefsInputs == {NoPrefs, SamplePrefs}
StorePartialInputs == {[bidirectional_cards |-> FALSE]}
(* the input of update_deck_preferences where the states of cards are      *)
(* followed                                                                *)
StatesPartialInputs == {[new_per_day |-> 3]}
(* inputs of review(rating, answer_ms) where notes are added *)
StoreRatings == {GOOD}
StoreAnswerMs == 4000

(* get_deck_preferences on the decks table ds: the stored preferences, or  *)
(* the fallback for an unknown deck                                        *)
deck_preferences_in(ds, deck_id) ==
  IF deck_id \in DOMAIN ds
    THEN ds[deck_id]
    ELSE [new_per_day |-> 20, rev_per_day |-> 200, steps_min |-> <<1, 10>>,
          bidirectional_cards |-> TRUE]

get_deck_preferences(deck_id) == deck_preferences_in(decks, deck_id)

(* dict.get(key, default) *)
pref_get(prefs, key, default) ==
  IF key \in DOMAIN prefs THEN prefs[key] ELSE default

(* update_deck_preferences with a rev_per_day that is passed kept as       *)
(* passed                                                                  *)
merged_preferences_explicit_rev(current_prefs, preferences) ==
  LET updated == [k \in DOMAIN current_prefs \cup DOMAIN preferences |->
                    IF k \in DOMAIN preferences THEN preferences[k]
                    ELSE current_prefs[k]]
  IN  IF "new_per_day" \in DOMAIN preferences /\ "rev_per_day" \notin DOMAIN preferences
        THEN [k \in DOMAIN updated \cup {"rev_per_day"} |->
                IF k = "rev_per_day" THEN updated["new_per_day"] * 10 ELSE updated[k]]
        ELSE updated

(* the dict update_deck_preferences stores: current_prefs.update(          *)
(* preferences), then rev_per_day = new_per_day * 10 when new_per_day is   *)
(* among the keys passed (lines 471-476)                                   *)
merged_preferences(current_prefs, preferences) ==
  LET updated == [k \in DOMAIN current_prefs \cup DOMAIN preferences |->
                    IF k \in DOMAIN preferences THEN preferences[k]
                    ELSE current_prefs[k]]
  IN  IF "new_per_day" \in DOMAIN preferences
        THEN [k \in DOMAIN updated \cup {"rev_per_day"} |->
                IF k = "rev_per_day" THEN updated["new_per_day"] * 10 ELSE updated[k]]
        ELSE updated

(* get_study_date without the rollover: the local calendar day *)
get_study_date_calendar(timestamp) == timestamp \div DaySeconds

(* StudyTime.get_study_date: the day number of the local calendar day,     *)
(* one less when the local hour is before the rollover hour.  Local time   *)
(* is taken to be UTC.                                                     *)
get_study_date(timestamp) ==
  LET day == timestamp \div DaySeconds
      hour == (timestamp % DaySeconds) \div 3600
  IN  IF hour < rollover_hour THEN day - 1 ELSE day

(* get_daily_stats: the row of (deck, study date), zeros when absent *)
get_daily_stats(deck_id, study_date) ==
  IF <<deck_id, study_date>> \in DOMAIN daily_stats
    THEN daily_stats[<<deck_id, study_date>>]
    ELSE [new_studied |-> 0, rev_studied |-> 0]

(* increment_daily_stats with the sum of the two counts added to both      *)
(* counters                                                                *)
increment_daily_stats_both(deck_id, study_date, new_count, rev_count) ==
  LET old == get_daily_stats(deck_id, study_date)
      row == [new_studied |-> old.new_studied + new_count + rev_count,
              rev_studied |-> old.rev_studied + new_count + rev_count]
  IN  [k \in DOMAIN daily_stats \cup {<<deck_id, study_date>>} |->
         IF k = <<deck_id, study_date>> THEN row ELSE daily_stats[k]]

(* increment_daily_stats: INSERT OR REPLACE of the row with both counters  *)
(* increased                                                               *)
increment_daily_stats(deck_id, study_date, new_count, rev_count) ==
  LET old == get_daily_stats(deck_id, study_date)
      row == [new_studied |-> old.new_studied + new_count,
              rev_studied |-> old.rev_studied + rev_count]
  IN  [k \in DOMAIN daily_stats \cup {<<deck_id, study_date>>} |->
         IF k = <<deck_id, study_date>> THEN row ELSE daily_stats[k]]

DeckOf(card_id) == notes[cards[card_id].note_id].deck_id

NoSession == [builder |-> "none", deck_ids |-> {}, max_new |-> None,
              max_rev |-> None, queue |-> <<>>]

(* The calls of Scheduler.review that are under way on the connection the  *)
(* threads share (check_same_thread = False): for each caller the          *)
(* statement it has reached, its arguments, now_ts, the random factor it   *)
(* draws, the row _get_card returned to it, and the position of its UPDATE *)
(* among the UPDATEs of the calls.                                         *)
Callers == {1, 2}

NoCard ==
  [note_id |-> None, template |-> "none", state |-> "none", due_ts |-> None,
   interval_days |-> None, ease |-> None, lapses |-> None, step_index |-> None,
   last_review_ts |-> None]

IdleCall ==
  [pc |-> "idle", card_id |-> None, rating |-> None, answer_ms |-> None,
   now_ts |-> None, fuzz_factor |-> None, card |-> NoCard, write_no |-> 0]

NoCalls == [p \in Callers |-> IdleCall]

(* The merge loop of a session builder while it runs: the builder, whether *)
(* the loop is running or has returned, the session list so far, the three *)
(* pools and cards_since_learning.                                         *)
NoMerge ==
  [pc |-> "none", builder |-> "none", queue |-> <<>>, learning_pool |-> <<>>,
   review_pool |-> <<>>, new_pool |-> <<>>, future_learning |-> <<>>,
   cards_since_learning |-> 0]

(* ---------------------------- state machine ---------------------------- *)
(* apply_fuzz without the floor of one day *)
apply_fuzz_unfloored(interval, fuzz_factor) ==
  IF interval < OneDay
    THEN interval
    ELSE (interval * fuzz_factor) \div 100

(* _apply_fuzz with the random factor made explicit *)
apply_fuzz(interval, fuzz_factor) ==
  IF interval < OneDay
    THEN interval
    ELSE Max(OneDay, (interval * fuzz_factor) \div 100)

(* int(new_interval * 24 * 3600) *)
IntervalSeconds(interval) == (interval * 432) \div 5

NextState(st, due, iv, ea, la, si) ==
  [state |-> st, due_ts |-> due, interval_days |-> iv, ease |-> ea,
   lapses |-> la, step_index |-> si]

(* graduation to Review: the fuzzed interval and due = now + int(interval  *)
(* * 24 * 3600) (lines 336-339, 361-364, 375-378)                          *)
graduate(days, ea, la, now_ts, fuzz_factor) ==
  LET new_interval == apply_fuzz(days, fuzz_factor)
  IN  NextState("review", now_ts + IntervalSeconds(new_interval), new_interval,
                ea, la, 0)

(* next_from_new with the first grading entering the learning steps at    *)
(* the second step instead of the first                                    *)
next_from_new_skipping_first_step(card, rating, now_ts, fuzz_factor) ==
  LET new_ease == IF card.ease = 0 THEN STARTING_EASE ELSE card.ease
  IN  IF rating \in {AGAIN, HARD, GOOD}
        THEN NextState("learning", now_ts + LEARNING_STEPS[2] * 60, 0, new_ease,
                       card.lapses, IF rating = GOOD THEN 1 ELSE 0)
        ELSE graduate(GRADUATING_INTERVAL_EASY, new_ease, card.lapses, now_ts,
                      fuzz_factor)

(* _calculate_next_state, branch current_state == 'new' (lines 315-339) *)
next_from_new(card, rating, now_ts, fuzz_factor) ==
  LET new_ease == IF card.ease = 0 THEN STARTING_EASE ELSE card.ease
  IN  IF rating \in {AGAIN, HARD, GOOD}
        THEN NextState("learning", now_ts + LEARNING_STEPS[1] * 60, 0, new_ease,
                       card.lapses, 0)
        ELSE graduate(GRADUATING_INTERVAL_EASY, new_ease, card.lapses, now_ts,
                      fuzz_factor)

(* hard_step_minutes without the minimum of ten minutes *)
hard_step_minutes_unfloored(current_step) ==
  LEARNING_STEPS[Min(current_step, Len(LEARNING_STEPS) - 1) + 1]

(* the minutes until a Learning card rated Hard is due again (line 355) *)
hard_step_minutes(current_step) ==
  Max(10, LEARNING_STEPS[Min(current_step, Len(LEARNING_STEPS) - 1) + 1])

(* next_from_learning with the advance to the next step taking the         *)
(* duration of the step the card leaves                                    *)
next_from_learning_stale_step(card, rating, now_ts, fuzz_factor) ==
  LET current_step == card.step_index
  IN  IF rating = AGAIN
        THEN NextState("learning", now_ts + LEARNING_STEPS[1] * 60, 0, card.ease,
                       card.lapses + 1, 0)
      ELSE IF rating = HARD
        THEN LET step_minutes ==
                   Max(10, LEARNING_STEPS[Min(current_step, Len(LEARNING_STEPS) - 1) + 1])
             IN  NextState("learning", now_ts + step_minutes * 60, 0, card.ease,
                           card.lapses, current_step)
      ELSE IF rating = GOOD
        THEN IF current_step >= Len(LEARNING_STEPS) - 1
               THEN graduate(GRADUATING_INTERVAL_GOOD, card.ease, card.lapses,
                             now_ts, fuzz_factor)
               ELSE LET new_step_index == current_step + 1
                    IN  NextState("learning",
                                  now_ts + LEARNING_STEPS[current_step + 1] * 60,
                                  0, card.ease, card.lapses, new_step_index)
      ELSE graduate(GRADUATING_INTERVAL_EASY, card.ease, card.lapses, now_ts,
                    fuzz_factor)

(* next_from_learning with the interval a card came with kept while it is  *)
(* Learning and taken up again when Good graduates it                      *)
next_from_learning_restoring_interval(card, rating, now_ts, fuzz_factor) ==
  LET current_step == card.step_index
  IN  IF rating = AGAIN
        THEN NextState("learning", now_ts + LEARNING_STEPS[1] * 60,
                       card.interval_days, card.ease, card.lapses + 1, 0)
      ELSE IF rating = HARD
        THEN LET step_minutes == hard_step_minutes(current_step)
             IN  NextState("learning", now_ts + step_minutes * 60,
                           card.interval_days, card.ease, card.lapses, current_step)
      ELSE IF rating = GOOD
        THEN IF current_step >= Len(LEARNING_STEPS) - 1
               THEN graduate(Max(GRADUATING_INTERVAL_GOOD, card.interval_days),
                             card.ease, card.lapses, now_ts, fuzz_factor)
               ELSE LET new_step_index == current_step + 1
                    IN  NextState("learning",
                                  now_ts + LEARNING_STEPS[new_step_index + 1] * 60,
                                  card.interval_days, card.ease, card.lapses,
                                  new_step_index)
      ELSE graduate(GRADUATING_INTERVAL_EASY, card.ease, card.lapses, now_ts,
                    fuzz_factor)

(* _calculate_next_state, branch current_state == 'learning' (lines 341-379) *)
next_from_learning(card, rating, now_ts, fuzz_factor) ==
  LET current_step == card.step_index
  IN  IF rating = AGAIN
        THEN NextState("learning", now_ts + LEARNING_STEPS[1] * 60, 0, card.ease,
                       card.lapses + 1, 0)
      ELSE IF rating = HARD
        THEN LET step_minutes == hard_step_minutes(current_step)
             IN  NextState("learning", now_ts + step_minutes * 60, 0, card.ease,
                           card.lapses, current_step)
      ELSE IF rating = GOOD
        THEN IF current_step >= Len(LEARNING_STEPS) - 1
               THEN graduate(GRADUATING_INTERVAL_GOOD, card.ease, card.lapses,
                             now_ts, fuzz_factor)
               ELSE LET new_step_index == current_step + 1
                    IN  NextState("learning",
                                  now_ts + LEARNING_STEPS[new_step_index + 1] * 60,
                                  0, card.ease, card.lapses, new_step_index)
      ELSE graduate(GRADUATING_INTERVAL_EASY, card.ease, card.lapses, now_ts,
                    fuzz_factor)

(* lapse_ease without the floor *)
lapse_ease_unfloored(current_ease) == current_ease - 20

(* the ease after a lapse (line 394) *)
lapse_ease(current_ease) == Max(MINIMUM_EASE, current_ease - 20)

(* lapse_interval as half the interval less a day, without a floor *)
lapse_interval_less_a_day(current_interval) ==
  (current_interval * LAPSE_MULTIPLIER) \div 100 - OneDay

(* lapse_interval without the floor of one day *)
lapse_interval_unfloored(current_interval) ==
  (current_interval * LAPSE_MULTIPLIER) \div 100

(* the interval stored at a lapse (line 393) *)
lapse_interval(current_interval) ==
  Max(OneDay, (current_interval * LAPSE_MULTIPLIER) \div 100)

(* hard_ease without the floor *)
hard_ease_unfloored(current_ease) == current_ease - 15

(* the ease after a Review card is rated Hard (line 402) *)
hard_ease(current_ease) == Max(MINIMUM_EASE, current_ease - 15)

(* hard_interval without the multiplier *)
hard_interval_unmultiplied(current_interval) == Max(OneDay, current_interval)

(* the interval of a Review card rated Hard, before fuzzing (line 403) *)
hard_interval(current_interval) ==
  Max(OneDay, (current_interval * HARD_MULTIPLIER) \div 100)

(* good_interval without the credit for the days late *)
good_interval_without_credit(current_interval, days_late, new_ease) ==
  (current_interval * new_ease) \div 100

(* the interval of a Review card rated Good, before fuzzing (line 407) *)
good_interval(current_interval, days_late, new_ease) ==
  ((current_interval + days_late \div 2) * new_ease) \div 100

(* the interval of a Review card rated Easy, before fuzzing (line 411) *)
easy_interval(current_interval, days_late, new_ease) ==
  ((((current_interval + days_late) * new_ease) \div 100) * EASY_MULTIPLIER) \div 100

(* _calculate_next_state, branch current_state == 'review' (lines 381-415) *)
next_from_review(card, rating, now_ts, fuzz_factor) ==
  LET current_interval == card.interval_days
      current_ease == card.ease
      days_late == Max(0, ((now_ts - card.due_ts) * 5) \div 432)
  IN  IF rating = AGAIN
        THEN NextState("learning", now_ts + LEARNING_STEPS[1] * 60,
                       lapse_interval(current_interval),
                       lapse_ease(current_ease), card.lapses + 1, 0)
      ELSE LET new_ease ==
                 IF rating = HARD THEN hard_ease(current_ease)
                 ELSE IF rating = GOOD THEN current_ease
                 ELSE current_ease + 15
               new_interval ==
                 IF rating = HARD THEN hard_interval(current_interval)
                 ELSE IF rating = GOOD
                   THEN good_interval(current_interval, days_late, new_ease)
                 ELSE easy_interval(current_interval, days_late, new_ease)
               fuzzed == apply_fuzz(new_interval, fuzz_factor)
           IN  NextState("review", now_ts + IntervalSeconds(fuzzed), fuzzed,
                         new_ease, card.lapses, 0)

(* next_from_other with a card of an unhandled state sent back to New *)
next_from_other_reset(card) ==
  NextState("new", card.due_ts, card.interval_days, card.ease,
            card.lapses, card.step_index)

(* _calculate_next_state, the final else: suspended or unknown state       *)
(* (lines 416-419)                                                         *)
next_from_other(card) ==
  NextState(card.state, card.due_ts, card.interval_days, card.ease,
            card.lapses, card.step_index)

(* calculate_next_state with a Suspended card graded as a New card *)
calculate_next_state_unsuspending(card, rating, now_ts, fuzz_factor) ==
  IF card.state \in {"new", "suspended"}
    THEN next_from_new(card, rating, now_ts, fuzz_factor)
  ELSE IF card.state = "learning"
    THEN next_from_learning(card, rating, now_ts, fuzz_factor)
  ELSE next_from_review(card, rating, now_ts, fuzz_factor)

(* _calculate_next_state(card, rating, now_ts); fuzz_factor is the value   *)
(* 0.95 + random.random() * 0.1 drawn by _apply_fuzz                       *)
calculate_next_state(card, rating, now_ts, fuzz_factor) ==
  IF card.state = "new" THEN next_from_new(card, rating, now_ts, fuzz_factor)
  ELSE IF card.state = "learning"
    THEN next_from_learning(card, rating, now_ts, fuzz_factor)
  ELSE IF card.state = "review"
    THEN next_from_review(card, rating, now_ts, fuzz_factor)
  ELSE next_from_other(card)

(* the next state of a call computed from the card as the store holds it   *)
(* now instead of the row the call read                                    *)
computed_next_state_from_store(call) ==
  calculate_next_state(cards[call.card_id], call.rating, call.now_ts,
                       call.fuzz_factor)

(* what a call of review computes: _calculate_next_state of the row it     *)
(* read at its start (lines 241-249)                                       *)
computed_next_state(call) ==
  calculate_next_state(call.card, call.rating, call.now_ts, call.fuzz_factor)

(* update_card_after_review with the ease column left out of the UPDATE *)
update_card_after_review_keeping_ease(card_id, n) ==
  [cards EXCEPT ![card_id] =
     [@ EXCEPT !.state = n.state, !.due_ts = n.due_ts,
               !.interval_days = n.interval_days,
               !.lapses = n.lapses, !.step_index = n.step_index,
               !.last_review_ts = clock]]

(* update_card_after_review: the six computed fields and last_review_ts,   *)
(* which is read from the wall clock                                       *)
update_card_after_review(card_id, n) ==
  [cards EXCEPT ![card_id] =
     [@ EXCEPT !.state = n.state, !.due_ts = n.due_ts,
               !.interval_days = n.interval_days, !.ease = n.ease,
               !.lapses = n.lapses, !.step_index = n.step_index,
               !.last_review_ts = clock]]

(* log_review with the resulting interval written to both interval columns *)
log_review_resulting_only(card_id, rating, answer_ms, prev_state, prev_interval, next_interval) ==
  Append(review_log,
         [card_id |-> card_id, ts |-> clock, rating |-> rating,
          answer_ms |-> answer_ms, prev_state |-> prev_state,
          prev_interval |-> next_interval, next_interval |-> next_interval])

(* log_review: one row appended to review_log; ts is read from the wall    *)
(* clock and the row id is the position in the table                       *)
log_review(card_id, rating, answer_ms, prev_state, prev_interval, next_interval) ==
  Append(review_log,
         [card_id |-> card_id, ts |-> clock, rating |-> rating,
          answer_ms |-> answer_ms, prev_state |-> prev_state,
          prev_interval |-> prev_interval, next_interval |-> next_interval])

(* ------------------------------- queries ------------------------------- *)
(* the orders a query's ORDER BY admits: every arrangement of the rows S   *)
(* that is non-decreasing in the sort key; rows with equal keys come in    *)
(* any order                                                               *)
Arrangements(S) ==
  {s \in [1..Cardinality(S) -> S] : \A i, j \in 1..Cardinality(S) : i # j => s[i] # s[j]}

OrderedByDue(S) ==
  {s \in Arrangements(S) :
     \A i \in 1..(Len(s) - 1) : cards[s[i]].due_ts <= cards[s[i + 1]].due_ts}

RECURSIVE OrderedById(_)
OrderedById(S) ==
  IF S = {} THEN <<>>
  ELSE LET m == CHOOSE x \in S : \A y \in S : x <= y
       IN  <<m>> \o OrderedById(S \ {m})

(* list[:n] *)
Prefix(s, n) ==
  IF n >= 0 THEN SubSeq(s, 1, Min(n, Len(s)))
  ELSE SubSeq(s, 1, Max(0, Len(s) + n))

(* f"LIMIT {limit}" if limit else "": no clause for None and none for 0 *)
limit_clause(s, limit) ==
  IF limit # None /\ limit # 0 THEN Prefix(s, limit) ELSE s

(* get_learning_cards with the cards that are due at now_ts only *)
get_learning_cards_due_now(deck_ids, now_ts) ==
  OrderedByDue({c \in DOMAIN cards :
                  /\ DeckOf(c) \in deck_ids
                  /\ cards[c].state = "learning"
                  /\ cards[c].due_ts <= now_ts})

(* Database.get_learning_cards(deck_ids, now_ts) *)
get_learning_cards(deck_ids, now_ts) ==
  OrderedByDue({c \in DOMAIN cards :
                  /\ DeckOf(c) \in deck_ids
                  /\ cards[c].state = "learning"
                  /\ cards[c].due_ts <= now_ts + session_duration})

(* Database.get_review_cards(deck_ids, now_ts, limit) *)
get_review_cards(deck_ids, now_ts, limit) ==
  {limit_clause(s, limit) :
     s \in OrderedByDue({c \in DOMAIN cards :
                           /\ DeckOf(c) \in deck_ids
                           /\ cards[c].state = "review"
                           /\ cards[c].due_ts <= now_ts})}

(* Database.get_new_cards(deck_ids, limit) *)
get_new_cards(deck_ids, limit) ==
  limit_clause(OrderedById({c \in DOMAIN cards :
                              /\ DeckOf(c) \in deck_ids
                              /\ cards[c].state = "new"}), limit)

(* get_cards_for_review with the cards that are due at now_ts only *)
get_cards_for_review_due_now(deck_ids, now_ts) ==
  OrderedByDue({c \in DOMAIN cards :
                  /\ DeckOf(c) \in deck_ids
                  /\ cards[c].due_ts <= now_ts
                  /\ cards[c].state # "suspended"})

(* Database.get_cards_for_review(deck_ids, now_ts) *)
get_cards_for_review(deck_ids, now_ts) ==
  OrderedByDue({c \in DOMAIN cards :
                  /\ DeckOf(c) \in deck_ids
                  /\ \/ cards[c].due_ts <= now_ts
                     \/ /\ cards[c].state = "learning"
                        /\ cards[c].due_ts <= now_ts + session_duration
                  /\ cards[c].state # "suspended"})

(* --------------------------- session builders -------------------------- *)
InState(s, st) ==
  LET Test(c) == cards[c].state = st IN SelectSeq(s, Test)

OfDeck(s, deck_id) ==
  LET Test(c) == DeckOf(c) = deck_id IN SelectSeq(s, Test)

(* the keys of cards_by_deck in insertion order: the decks of              *)
(* new_cards + review_cards by first appearance                            *)
RECURSIVE deck_order(_, _)
deck_order(s, seen) ==
  IF s = <<>> THEN <<>>
  ELSE LET d == DeckOf(Head(s))
       IN  IF d \in seen THEN deck_order(Tail(s), seen)
           ELSE <<d>> \o deck_order(Tail(s), seen \cup {d})

(* the remaining daily allowance of one deck (build_session, lines 140-148) *)
new_remaining_of(deck_id, study_date) ==
  Max(0, get_deck_preferences(deck_id).new_per_day
           - get_daily_stats(deck_id, study_date).new_studied)

rev_remaining_of(deck_id, study_date) ==
  Max(0, get_deck_preferences(deck_id).rev_per_day
           - get_daily_stats(deck_id, study_date).rev_studied)

(* cap_new with max_new ignored *)
cap_new_ignoring_max(new_remaining, max_new, taken) == new_remaining

(* the global maxima of build_session (lines 150-154) *)
cap_new(new_remaining, max_new, taken) ==
  IF max_new # None THEN Min(new_remaining, max_new - taken) ELSE new_remaining

cap_rev(rev_remaining, max_rev, taken) ==
  IF max_rev # None THEN Min(rev_remaining, max_rev - taken) ELSE rev_remaining

(* the loop "for deck_id, deck_cards in cards_by_deck.items()" of          *)
(* build_session; the result is <<filtered_new_cards, filtered_review_cards>> *)
RECURSIVE apply_daily_limits(_, _, _, _, _, _, _, _)
apply_daily_limits(order, new_cards, review_cards, study_date, max_new, max_rev, filtered_new_cards, filtered_review_cards) ==
  IF order = <<>> THEN <<filtered_new_cards, filtered_review_cards>>
  ELSE LET deck_id == Head(order)
           new_remaining ==
             cap_new(new_remaining_of(deck_id, study_date), max_new,
                     Len(filtered_new_cards))
           rev_remaining ==
             cap_rev(rev_remaining_of(deck_id, study_date), max_rev,
                     Len(filtered_review_cards))
       IN  apply_daily_limits(Tail(order), new_cards, review_cards, study_date,
             max_new, max_rev,
             filtered_new_cards \o Prefix(OfDeck(new_cards, deck_id), new_remaining),
             filtered_review_cards \o Prefix(OfDeck(review_cards, deck_id), rev_remaining))

(* the while loop of Scheduler._build_anki_session *)
RECURSIVE merge_pools(_, _, _, _, _)
merge_pools(queue, learning_pool, new_pool, review_pool, cards_since_learning) ==
  IF learning_pool = <<>> /\ new_pool = <<>> /\ review_pool = <<>> THEN queue
  ELSE IF learning_pool # <<>> /\ cards_since_learning >= learning_interval
    THEN merge_pools(Append(queue, Head(learning_pool)), Tail(learning_pool),
                     new_pool, review_pool, 0)
  ELSE IF new_pool # <<>> /\ Len(queue) % 4 = 1
    THEN merge_pools(Append(queue, Head(new_pool)), learning_pool,
                     Tail(new_pool), review_pool, cards_since_learning + 1)
  ELSE IF review_pool # <<>>
    THEN merge_pools(Append(queue, Head(review_pool)), learning_pool,
                     new_pool, Tail(review_pool), cards_since_learning + 1)
  ELSE IF new_pool # <<>>
    THEN merge_pools(Append(queue, Head(new_pool)), learning_pool,
                     Tail(new_pool), review_pool, cards_since_learning + 1)
  ELSE merge_pools(Append(queue, Head(learning_pool)), Tail(learning_pool),
                   new_pool, review_pool, 0)

(* Scheduler._build_anki_session(learning_cards, new_cards, review_cards,  *)
(* future_learning)                                                        *)
build_anki_session_private(learning_cards, new_cards, review_cards, future_learning) ==
  merge_pools(<<>>, learning_cards, new_cards, review_cards, 0) \o future_learning

(* Scheduler.build_session(deck_ids, now_ts, max_new, max_rev) computed    *)
(* from one result of get_cards_for_review                                 *)
build_session_from(cs, now_ts, max_new, max_rev) ==
  LET study_date == get_study_date(now_ts)
      new_cards == InState(cs, "new")
      learning_cards == InState(cs, "learning")
      review_cards == InState(cs, "review")
      filtered == apply_daily_limits(deck_order(new_cards \o review_cards, {}),
                    new_cards, review_cards, study_date, max_new, max_rev,
                    <<>>, <<>>)
      IsDue(c) == cards[c].due_ts <= now_ts + session_duration
      IsFuture(c) == cards[c].due_ts > now_ts + session_duration
      due_learning == SelectSeq(learning_cards, IsDue)
      future_learning == SelectSeq(learning_cards, IsFuture)
  IN  build_anki_session_private(due_learning, filtered[1], filtered[2],
                                 future_learning)

(* apply_sibling_burying with the New cards left unfiltered *)
apply_sibling_burying_keeping_new(learning_cards, review_cards, new_cards) ==
  IF learning_cards = <<>> THEN <<learning_cards, review_cards, new_cards>>
  ELSE LET buried_notes == {cards[learning_cards[i]].note_id : i \in DOMAIN learning_cards}
           Kept(c) == cards[c].note_id \notin buried_notes
       IN  <<learning_cards, SelectSeq(review_cards, Kept), new_cards>>

(* Scheduler._apply_sibling_burying: <<learning, review, new>> *)
apply_sibling_burying(learning_cards, review_cards, new_cards) ==
  IF learning_cards = <<>> THEN <<learning_cards, review_cards, new_cards>>
  ELSE LET buried_notes == {cards[learning_cards[i]].note_id : i \in DOMAIN learning_cards}
           Kept(c) == cards[c].note_id \notin buried_notes
       IN  <<learning_cards, SelectSeq(review_cards, Kept), SelectSeq(new_cards, Kept)>>

SeqRange(s) == {s[i] : i \in DOMAIN s}

(* the orders list.sort(key = due_ts + _fuzz_delay) can leave the learning *)
(* cards in, over every draw of the delays from 0..300: a card may come    *)
(* before one due earlier only when less than 300 s separate them          *)
fuzzed_learning_orders(learning_cards) ==
  {s \in Arrangements(SeqRange(learning_cards)) :
     \A i, j \in DOMAIN s :
        i < j => cards[s[i]].due_ts < cards[s[j]].due_ts + MaxFuzzDelay
                 \/ cards[s[i]].due_ts = cards[s[j]].due_ts}

(* the results of random.shuffle *)
shuffles(s) == Arrangements(SeqRange(s))

(* the while loop of Scheduler._interleave_anki_style *)
RECURSIVE interleave_pools(_, _, _, _, _)
interleave_pools(queue, learning_pool, review_pool, new_pool, cards_since_learning) ==
  IF learning_pool = <<>> /\ review_pool = <<>> /\ new_pool = <<>> THEN queue
  ELSE IF /\ learning_pool # <<>>
          /\ \/ cards_since_learning >= learning_interval
             \/ (review_pool = <<>> /\ new_pool = <<>>)
    THEN interleave_pools(Append(queue, Head(learning_pool)), Tail(learning_pool),
                          review_pool, new_pool, 0)
  ELSE IF review_pool # <<>> /\ Len(queue) % 4 # 1
    THEN interleave_pools(Append(queue, Head(review_pool)), learning_pool,
                          Tail(review_pool), new_pool, cards_since_learning + 1)
  ELSE IF new_pool # <<>>
    THEN interleave_pools(Append(queue, Head(new_pool)), learning_pool,
                          review_pool, Tail(new_pool), cards_since_learning + 1)
  ELSE IF review_pool # <<>>
    THEN interleave_pools(Append(queue, Head(review_pool)), learning_pool,
                          Tail(review_pool), new_pool, cards_since_learning + 1)
  ELSE interleave_pools(Append(queue, Head(learning_pool)), Tail(learning_pool),
                        review_pool, new_pool, 0)

(* The two merge loops one iteration at a time, on the loop state m.       *)
(* merge_start with the loop entered as if three cards had been placed     *)
(* since the last Learning card                                            *)
merge_start_learning_due(builder, learning, review, new, future_learning) ==
  [pc |-> "loop", builder |-> builder, queue |-> <<>>, learning_pool |-> learning,
   review_pool |-> review, new_pool |-> new, future_learning |-> future_learning,
   cards_since_learning |-> learning_interval]

(* session = [], the copies of the pools and cards_since_learning = 0      *)
(* (lines 184-193, 509-522)                                                *)
merge_start(builder, learning, review, new, future_learning) ==
  [pc |-> "loop", builder |-> builder, queue |-> <<>>, learning_pool |-> learning,
   review_pool |-> review, new_pool |-> new, future_learning |-> future_learning,
   cards_since_learning |-> 0]

(* session.append(learning_pool.pop(0)); cards_since_learning = 0 *)
take_learning(m) ==
  [m EXCEPT !.queue = Append(@, Head(m.learning_pool)),
            !.learning_pool = Tail(@), !.cards_since_learning = 0]

(* session.append(review_pool.pop(0)); cards_since_learning += 1 *)
take_review(m) ==
  [m EXCEPT !.queue = Append(@, Head(m.review_pool)),
            !.review_pool = Tail(@), !.cards_since_learning = @ + 1]

(* take_new with the card popped and not appended *)
take_new_dropped(m) ==
  [m EXCEPT !.new_pool = Tail(@), !.cards_since_learning = @ + 1]

(* session.append(new_pool.pop(0)); cards_since_learning += 1 *)
take_new(m) ==
  [m EXCEPT !.queue = Append(@, Head(m.new_pool)),
            !.new_pool = Tail(@), !.cards_since_learning = @ + 1]

(* the body of the while loop of _interleave_anki_style (lines 525-557) *)
interleave_iteration(m) ==
  IF /\ m.learning_pool # <<>>
     /\ \/ m.cards_since_learning >= learning_interval
        \/ (m.review_pool = <<>> /\ m.new_pool = <<>>)
    THEN take_learning(m)
  ELSE IF m.review_pool # <<>> /\ Len(m.queue) % 4 # 1 THEN take_review(m)
  ELSE IF m.new_pool # <<>> THEN take_new(m)
  ELSE IF m.review_pool # <<>> THEN take_review(m)
  ELSE IF m.learning_pool # <<>> THEN take_learning(m)
  ELSE [m EXCEPT !.pc = "done"]

(* the body of the while loop of _build_anki_session (lines 196-218) *)
build_iteration(m) ==
  IF m.learning_pool # <<>> /\ m.cards_since_learning >= learning_interval
    THEN take_learning(m)
  ELSE IF m.new_pool # <<>> /\ Len(m.queue) % 4 = 1 THEN take_new(m)
  ELSE IF m.review_pool # <<>> THEN take_review(m)
  ELSE IF m.new_pool # <<>> THEN take_new(m)
  ELSE IF m.learning_pool # <<>> THEN take_learning(m)
  ELSE [m EXCEPT !.pc = "done"]

(* while learning_pool or review_pool or new_pool *)
pools_left(m) ==
  m.learning_pool # <<>> \/ m.review_pool # <<>> \/ m.new_pool # <<>>

(* Scheduler._interleave_anki_style(card_groups) *)
interleave_anki_style(learning, review, new) ==
  interleave_pools(<<>>, learning, review, new, 0)

(* the sums of the remaining daily limits (build_anki_session, lines 54-66) *)
RECURSIVE SumOver(_, _)
SumOver(S, f) ==
  IF S = {} THEN 0
  ELSE LET x == CHOOSE y \in S : TRUE IN f[x] + SumOver(S \ {x}, f)

total_new_limit(deck_ids, study_date) ==
  SumOver(deck_ids, [d \in deck_ids |->
    Max(0, get_deck_preferences(d).new_per_day
             - get_daily_stats(d, study_date).new_studied)])

total_review_limit(deck_ids, study_date) ==
  SumOver(deck_ids, [d \in deck_ids |->
    Max(0, get_deck_preferences(d).rev_per_day
             - get_daily_stats(d, study_date).rev_studied)])

(* Scheduler.build_anki_session(deck_ids, now_ts): every queue it can      *)
(* return, over the tie orders of the queries and the random draws         *)
build_anki_session_results(deck_ids, now_ts) ==
  LET study_date == get_study_date(now_ts)
      new_cards == get_new_cards(deck_ids, total_new_limit(deck_ids, study_date))
  IN  UNION {
        LET filtered == apply_sibling_burying(learning_cards, review_cards, new_cards)
        IN  {interleave_anki_style(l, r, n) :
               <<l, r, n>> \in fuzzed_learning_orders(filtered[1])
                                \X shuffles(filtered[2]) \X shuffles(filtered[3])} :
        <<learning_cards, review_cards>> \in
           get_learning_cards(deck_ids, now_ts)
             \X get_review_cards(deck_ids, now_ts,
                                 total_review_limit(deck_ids, study_date))}

(* Scheduler.build_session(deck_ids, now_ts, max_new, max_rev): every      *)
(* queue it can return, over the tie orders of the query                   *)
build_session_results(deck_ids, now_ts, max_new, max_rev) ==
  {build_session_from(cs, now_ts, max_new, max_rev) :
     cs \in get_cards_for_review(deck_ids, now_ts)}

(* ------------------------------- actions ------------------------------- *)
(* Database.create_deck(name, is_builtin, prefs): the decks table after it *)
create_deck(ds, prefs) ==
  LET deck_id == FreshId(DeckIds, DOMAIN ds)
      stored == IF prefs = NoPrefs THEN DefaultPrefs ELSE prefs
  IN  [d \in DOMAIN ds \cup {deck_id} |-> IF d = deck_id THEN stored ELSE ds[d]]

NewCard(note_id, template, now_ts) ==
  [note_id |-> note_id, template |-> template, state |-> "new",
   due_ts |-> now_ts, interval_days |-> 0, ease |-> STARTING_EASE,
   lapses |-> 0, step_index |-> 0, last_review_ts |-> None]

(* add_note with the front->back card alone, whatever the preference *)
add_note_never_reverse(ds, ns, cs, deck_id, card_id_1, card_id_2, now_ts) ==
  LET note_id == FreshId(NoteIds, DOMAIN ns)
      ids == {card_id_1}
  IN  <<[n \in DOMAIN ns \cup {note_id} |->
           IF n = note_id THEN [deck_id |-> deck_id] ELSE ns[n]],
        [c \in DOMAIN cs \cup ids |->
           IF c = card_id_1 THEN NewCard(note_id, "front->back", now_ts)
           ELSE IF c \in ids THEN NewCard(note_id, "back->front", now_ts)
           ELSE cs[c]]>>

(* Database.add_note(deck_id, front, back, meta): <<notes, cards>> after   *)
(* it: the note, its front->back card and, for a bidirectional deck, its   *)
(* back->front card.  Card ids are uuids: card_id_1 and card_id_2 are any  *)
(* unused ids.                                                             *)
add_note(ds, ns, cs, deck_id, card_id_1, card_id_2, now_ts) ==
  LET note_id == FreshId(NoteIds, DOMAIN ns)
      prefs == deck_preferences_in(ds, deck_id)
      bidirectional == pref_get(prefs, "bidirectional_cards", TRUE)
      ids == IF bidirectional THEN {card_id_1, card_id_2} ELSE {card_id_1}
  IN  <<[n \in DOMAIN ns \cup {note_id} |->
           IF n = note_id THEN [deck_id |-> deck_id] ELSE ns[n]],
        [c \in DOMAIN cs \cup ids |->
           IF c = card_id_1 THEN NewCard(note_id, "front->back", now_ts)
           ELSE IF c \in ids THEN NewCard(note_id, "back->front", now_ts)
           ELSE cs[c]]>>

(* the card ids a new note of the deck may get.  The two cards of a note   *)
(* differ only in their template, which no query and no transition reads,  *)
(* so of the two orders of their ids the one with card_id_1 first stands   *)
(* for both.                                                               *)
FreshCardIds(ds, cs, deck_id) ==
  {p \in (CardIds \ DOMAIN cs) \X (CardIds \ DOMAIN cs) :
     IF pref_get(deck_preferences_in(ds, deck_id), "bidirectional_cards", TRUE)
       THEN p[1] < p[2] ELSE p[1] = p[2]}

(* The store the application studies from: two decks created with any of   *)
(* the preference inputs, the first bidirectional and the second not, and  *)
(* one note added to each at StartClock.  Card ids are only compared with  *)
(* each other (ORDER BY c.id), so the ids in use are the first ones of     *)
(* CardIds, in any order over the cards.                                   *)
Init ==
  \E prefs1, prefs2 \in PrefsInputs :
    /\ prefs1.bidirectional_cards /\ ~prefs2.bidirectional_cards
    /\ LET ds == create_deck(create_deck(<<>>, prefs1), prefs2)
       IN  /\ decks = ds
           /\ \E p1 \in FreshCardIds(ds, <<>>, 1) :
                LET a1 == add_note(ds, <<>>, <<>>, 1, p1[1], p1[2], StartClock)
                IN  \E p2 \in FreshCardIds(ds, a1[2], 2) :
                      LET a2 == add_note(ds, a1[1], a1[2], 2, p2[1], p2[2], StartClock)
                      IN  notes = a2[1] /\ cards = a2[2]
    /\ DOMAIN cards = 1..Cardinality(DOMAIN cards)
    /\ daily_stats = <<>>
    /\ clock = StartClock
    /\ session = NoSession
    /\ suspended = {}
    /\ nticks = 0
    /\ review_log = <<>>
    /\ calls = NoCalls
    /\ merge = NoMerge

(* the store as Database.__init__ leaves it: the tables created, no row   *)
InitStore ==
  /\ decks = <<>>
  /\ notes = <<>>
  /\ cards = <<>>
  /\ daily_stats = <<>>
  /\ clock = StartClock
  /\ session = NoSession
  /\ suspended = {}
  /\ nticks = 0
  /\ review_log = <<>>
  /\ calls = NoCalls
  /\ merge = NoMerge

(* Database.create_deck(name, is_builtin, prefs) on the store *)
create_deck_call(prefs) ==
  /\ decks' = create_deck(decks, prefs)
  /\ UNCHANGED <<notes, cards, daily_stats, clock, session, suspended, nticks,
                 review_log, calls, merge>>

(* Database.add_note(deck_id, front, back, meta) on the store, at now_ts = *)
(* the clock.  No foreign key is enforced (PRAGMA foreign_keys is never    *)
(* set), so the INSERTs succeed for a deck that does not exist too.        *)
add_note_call(deck_id, card_id_1, card_id_2) ==
  /\ LET a == add_note(decks, notes, cards, deck_id, card_id_1, card_id_2, clock)
     IN  notes' = a[1] /\ cards' = a[2]
  /\ session' = NoSession
  /\ UNCHANGED <<decks, daily_stats, clock, suspended, nticks, review_log, calls,
                 merge>>

(* Database.update_deck_preferences(deck_id, preferences): the UPDATE has  *)
(* no row to change when the deck does not exist                           *)
update_deck_preferences(deck_id, preferences) ==
  /\ LET current_prefs == merged_preferences(get_deck_preferences(deck_id), preferences)
     IN  decks' = [d \in DOMAIN decks |->
                     IF d = deck_id THEN current_prefs ELSE decks[d]]
  /\ session' = NoSession
  /\ UNCHANGED <<notes, cards, daily_stats, clock, suspended, nticks, review_log,
                 calls, merge>>

(* time passes between two calls *)
Tick(delta) ==
  /\ nticks < MaxTicks
  /\ clock' = clock + delta
  /\ nticks' = nticks + 1
  /\ session' = NoSession
  /\ UNCHANGED <<decks, notes, cards, daily_stats, suspended, review_log, calls,
                 merge>>

(* Scheduler.review at now_ts = the clock, its writes to cards and          *)
(* daily_stats: the card is read, its next state computed and stored, and  *)
(* the grading counted for the deck and study date; for a card that does   *)
(* not exist the call returns at once (lines 241-243)                      *)
grade(card_id, rating, fuzz_factor) ==
  /\ IF card_id \in DOMAIN cards
       THEN LET card == cards[card_id]
                prev_state == card.state
                n == calculate_next_state(card, rating, clock, fuzz_factor)
                study_date == get_study_date(clock)
                deck_id == notes[card.note_id].deck_id
                new_count == IF prev_state = "new" THEN 1 ELSE 0
                rev_count == IF prev_state \in {"learning", "review"} THEN 1 ELSE 0
            IN  /\ cards' = update_card_after_review(card_id, n)
                /\ daily_stats' =
                     IF new_count > 0 \/ rev_count > 0
                       THEN increment_daily_stats(deck_id, study_date, new_count, rev_count)
                       ELSE daily_stats
                /\ session' = NoSession
       ELSE UNCHANGED <<cards, daily_stats, session>>
  /\ UNCHANGED <<decks, notes, clock, suspended, nticks, calls, merge>>

(* Scheduler.review(card_id, rating, answer_ms) at now_ts = the clock: the *)
(* writes of grade and the row log_review appends between them             *)
review(card_id, rating, answer_ms, fuzz_factor) ==
  /\ grade(card_id, rating, fuzz_factor)
  /\ IF card_id \in DOMAIN cards
       THEN LET card == cards[card_id]
                n == calculate_next_state(card, rating, clock, fuzz_factor)
            IN  review_log' = log_review(card_id, rating, answer_ms, card.state,
                                         card.interval_days, n.interval_days)
       ELSE UNCHANGED review_log

(* Scheduler.review statement by statement, for calls that run at the same *)
(* time.  Every statement is one execute + commit on the shared            *)
(* connection, which sqlite3 serializes.                                   *)
(* lines 237-249: now_ts, the SELECT of _get_card, the early return for a  *)
(* card that does not exist, and the computation on the row read           *)
review_read(p, card_id, rating, answer_ms, fuzz_factor) ==
  /\ calls[p].pc = "idle"
  /\ IF card_id \in DOMAIN cards
       THEN calls' = [calls EXCEPT ![p] =
                        [pc |-> "read", card_id |-> card_id, rating |-> rating,
                         answer_ms |-> answer_ms, now_ts |-> clock,
                         fuzz_factor |-> fuzz_factor, card |-> cards[card_id],
                         write_no |-> 0]]
       ELSE UNCHANGED calls
  /\ UNCHANGED <<decks, notes, cards, daily_stats, clock, session, suspended,
                 nticks, review_log, merge>>

(* lines 251-255: the UPDATE of the card *)
review_write(p) ==
  /\ calls[p].pc = "read"
  /\ cards' = update_card_after_review(calls[p].card_id, computed_next_state(calls[p]))
  /\ calls' = [calls EXCEPT ![p].pc = "written",
                            ![p].write_no =
                              1 + Cardinality({q \in Callers : calls[q].write_no > 0})]
  /\ UNCHANGED <<decks, notes, daily_stats, clock, session, suspended, nticks,
                 review_log, merge>>

(* lines 257-260: the INSERT into review_log *)
review_append(p) ==
  /\ calls[p].pc = "written"
  /\ review_log' = log_review(calls[p].card_id, calls[p].rating, calls[p].answer_ms,
                              calls[p].card.state, calls[p].card.interval_days,
                              computed_next_state(calls[p]).interval_days)
  /\ calls' = [calls EXCEPT ![p].pc = "logged"]
  /\ UNCHANGED <<decks, notes, cards, daily_stats, clock, session, suspended,
                 nticks, merge>>

(* lines 262-285: the grading counted for the deck and the study date of    *)
(* now_ts, one INSERT OR REPLACE                                           *)
review_count(p) ==
  /\ calls[p].pc = "logged"
  /\ LET prev_state == calls[p].card.state
         deck_id == notes[calls[p].card.note_id].deck_id
         new_count == IF prev_state = "new" THEN 1 ELSE 0
         rev_count == IF prev_state \in {"learning", "review"} THEN 1 ELSE 0
     IN  daily_stats' =
           IF new_count > 0 \/ rev_count > 0
             THEN increment_daily_stats(deck_id, get_study_date(calls[p].now_ts),
                                        new_count, rev_count)
             ELSE daily_stats
  /\ calls' = [calls EXCEPT ![p].pc = "done"]
  /\ UNCHANGED <<decks, notes, cards, clock, session, suspended, nticks,
                 review_log, merge>>

(* Scheduler.suspend(card_id) -> Database.suspend_card; the UPDATE has no  *)
(* row to change when the card does not exist                              *)
suspend_card(card_id) ==
  /\ IF card_id \in DOMAIN cards
       THEN /\ cards' = [cards EXCEPT ![card_id].state = "suspended"]
            /\ suspended' = suspended \cup {card_id}
            /\ session' = NoSession
       ELSE UNCHANGED <<cards, suspended, session>>
  /\ UNCHANGED <<decks, notes, daily_stats, clock, nticks, review_log, calls,
                 merge>>

(* Scheduler.build_anki_session(deck_ids) at now_ts = the clock; a read    *)
(* of the store whose result the caller holds until its next call          *)
build_anki_session(deck_ids) ==
  /\ deck_ids # {}
  /\ \E queue \in build_anki_session_results(deck_ids, clock) :
       session' = [builder |-> "build_anki_session", deck_ids |-> deck_ids,
                   max_new |-> None, max_rev |-> None, queue |-> queue]
  /\ UNCHANGED <<decks, notes, cards, daily_stats, clock, suspended, nticks,
                 review_log, calls, merge>>

(* Scheduler.build_session(deck_ids, max_new, max_rev) at now_ts = the clock *)
build_session(deck_ids, max_new, max_rev) ==
  /\ deck_ids # {}
  /\ \E queue \in build_session_results(deck_ids, clock, max_new, max_rev) :
       session' = [builder |-> "build_session", deck_ids |-> deck_ids,
                   max_new |-> max_new, max_rev |-> max_rev, queue |-> queue]
  /\ UNCHANGED <<decks, notes, cards, daily_stats, clock, suspended, nticks,
                 review_log, calls, merge>>

(* Scheduler.build_anki_session(deck_ids, now_ts) and                      *)
(* Scheduler.build_session(deck_ids, now_ts) with a now_ts the caller      *)
(* passes instead of None; the caller holds the queue and the time it      *)
(* asked for                                                               *)
build_anki_session_at(deck_ids, now_ts) ==
  /\ deck_ids # {}
  /\ \E queue \in build_anki_session_results(deck_ids, now_ts) :
       session' = [builder |-> "build_anki_session", deck_ids |-> deck_ids,
                   max_new |-> None, max_rev |-> None, queue |-> queue,
                   now_ts |-> now_ts]
  /\ UNCHANGED <<decks, notes, cards, daily_stats, clock, suspended, nticks,
                 review_log, calls, merge>>

build_session_at(deck_ids, now_ts) ==
  /\ deck_ids # {}
  /\ \E queue \in build_session_results(deck_ids, now_ts, None, None) :
       session' = [builder |-> "build_session", deck_ids |-> deck_ids,
                   max_new |-> None, max_rev |-> None, queue |-> queue,
                   now_ts |-> now_ts]
  /\ UNCHANGED <<decks, notes, cards, daily_stats, clock, suspended, nticks,
                 review_log, calls, merge>>

(* the number of gradings counted so far, over all decks and study dates *)
TotalStudied ==
  SumOver(DOMAIN daily_stats,
          [k \in DOMAIN daily_stats |->
             daily_stats[k].new_studied + daily_stats[k].rev_studied])

Pass == \E delta \in TickDeltas : Tick(delta)

(* The specifications of the session builders follow the cards and the    *)
(* counters: nothing the engine does reads review_log, so what gradings    *)
(* reach there is what grade reaches alone, and the rows stay out of       *)
(* their states.                                                           *)
Review ==
  /\ TotalStudied < MaxReviews
  /\ \E card_id \in DOMAIN cards, rating \in Ratings, fuzz_factor \in FuzzFactors :
       grade(card_id, rating, fuzz_factor)
  /\ UNCHANGED review_log

(* the caller grades a card of the queue it has just built *)
GradeFromQueue ==
  /\ TotalStudied < MaxSessionReviews
  /\ \E card_id \in SeqRange(session.queue), rating \in Ratings,
        fuzz_factor \in FuzzFactors :
       grade(card_id, rating, fuzz_factor)
  /\ UNCHANGED review_log

Suspend ==
  /\ Cardinality(suspended) < MaxSuspends
  /\ \E card_id \in DOMAIN cards : suspend_card(card_id)

(* The caller asks for a queue when it holds none.  A build only reads the *)
(* store, so the queues built while one is held are those built without.   *)
BuildAnkiSession ==
  /\ session = NoSession
  /\ \E deck_ids \in SUBSET DOMAIN decks : build_anki_session(deck_ids)

BuildSession ==
  /\ session = NoSession
  /\ \E deck_ids \in SUBSET DOMAIN decks, max_new, max_rev \in MaxArgInputs \cup {None} :
       build_session(deck_ids, max_new, max_rev)

Next ==
  \/ Pass
  \/ Review
  \/ BuildAnkiSession
  \/ BuildSession

Spec == Init /\ [][Next]_vars

(* the review loop of the application: every grading is of a card of the   *)
(* queue built just before it                                              *)
NextSession ==
  \/ Pass
  \/ GradeFromQueue
  \/ BuildAnkiSession
  \/ BuildSession

SpecSession == Init /\ [][NextSession]_vars

(* one card of a deck that is not bidirectional, graded again and again;   *)
(* the rows of review_log stay out of the state here too                   *)
InitCard ==
  \E prefs \in CardPrefsInputs :
    /\ LET ds == create_deck(<<>>, prefs)
       IN  /\ decks = ds
           /\ \E p \in FreshCardIds(ds, <<>>, 1) :
                LET a == add_note(ds, <<>>, <<>>, 1, p[1], p[2], StartClock)
                IN  notes = a[1] /\ cards = a[2]
    /\ DOMAIN cards = 1..Cardinality(DOMAIN cards)
    /\ daily_stats = <<>>
    /\ clock = StartClock
    /\ session = NoSession
    /\ suspended = {}
    /\ nticks = 0
    /\ review_log = <<>>
    /\ calls = NoCalls
    /\ merge = NoMerge

ReviewDeep ==
  /\ TotalStudied < MaxDeepReviews
  /\ \E card_id \in DOMAIN cards, rating \in Ratings, fuzz_factor \in FuzzFactors :
       /\ (cards[card_id].state = "review" /\ rating # AGAIN)
            => cards[card_id].interval_days <= MaxDeepInterval
       /\ grade(card_id, rating, fuzz_factor)
       /\ UNCHANGED review_log

NextCard == ReviewDeep

SpecCard == InitCard /\ [][NextCard]_vars

(* one card taken through the learning steps, at different times *)
ReviewSteps ==
  /\ TotalStudied < MaxStepReviews
  /\ \E card_id \in DOMAIN cards, rating \in Ratings, answer_ms \in StepAnswerMsInputs,
        fuzz_factor \in FuzzFactors :
       review(card_id, rating, answer_ms, fuzz_factor)

NextSteps ==
  \/ Pass
  \/ ReviewSteps

SpecSteps == InitCard /\ [][NextSteps]_vars

(* suspension: cards are suspended, graded and queued in any order *)
ReviewFew ==
  /\ TotalStudied < MaxSuspendReviews
  /\ \E card_id \in DOMAIN cards, rating \in Ratings, fuzz_factor \in SuspendFuzzFactors :
       grade(card_id, rating, fuzz_factor)
  /\ UNCHANGED review_log

BuildSessionUncapped ==
  /\ session = NoSession
  /\ \E deck_ids \in SUBSET DOMAIN decks : build_session(deck_ids, None, None)

NextSuspend ==
  \/ Pass
  \/ ReviewFew
  \/ Suspend
  \/ BuildAnkiSession
  \/ BuildSessionUncapped

SpecSuspend == Init /\ [][NextSuspend]_vars

(* the review log: one card graded in any state, suspended or not, with    *)
(* every row kept                                                          *)
ReviewLogged ==
  /\ Len(review_log) < MaxLogReviews
  /\ \E card_id \in DOMAIN cards, rating \in Ratings, answer_ms \in AnswerMsInputs,
        fuzz_factor \in FuzzFactors :
       review(card_id, rating, answer_ms, fuzz_factor)

NextLog ==
  \/ ReviewLogged
  \/ Suspend

SpecLog == InitCard /\ [][NextLog]_vars

(* the counters: cards of two decks graded in any order, on either side   *)
(* of the rollover                                                         *)
ReviewCounted ==
  /\ TotalStudied < MaxCountReviews
  /\ \E card_id \in DOMAIN cards, rating \in Ratings, fuzz_factor \in CountFuzzFactors :
       grade(card_id, rating, fuzz_factor)
  /\ UNCHANGED review_log

NextCount ==
  \/ Pass
  \/ ReviewCounted

SpecCount == Init /\ [][NextCount]_vars

(* two calls of review made at the same time, their statements             *)
(* interleaved in any order, while the clock moves                         *)
ReviewRead ==
  \E p \in Callers, card_id \in CardIds, rating \in Ratings,
     answer_ms \in StepAnswerMsInputs, fuzz_factor \in RaceFuzzFactors :
    review_read(p, card_id, rating, answer_ms, fuzz_factor)

ReviewWrite == \E p \in Callers : review_write(p)

ReviewAppend == \E p \in Callers : review_append(p)

ReviewCount == \E p \in Callers : review_count(p)

NextRace ==
  \/ Pass
  \/ ReviewRead
  \/ ReviewWrite
  \/ ReviewAppend
  \/ ReviewCount

SpecRace == InitCard /\ [][NextRace]_vars

(* the preferences of decks: decks are created and their preferences       *)
(* updated in any order                                                    *)
CreateDeck ==
  /\ Cardinality(DOMAIN decks) < MaxDecks
  /\ \E prefs \in CreatePrefsInputs : create_deck_call(prefs)

UpdateDeckPreferences ==
  \E deck_id \in DeckIds, preferences \in PartialPrefsInputs :
    update_deck_preferences(deck_id, preferences)

NextPrefs ==
  \/ CreateDeck
  \/ UpdateDeckPreferences

SpecPrefs == InitStore /\ [][NextPrefs]_vars

(* the rows of the store: decks and notes are added, cards graded and a    *)
(* deck's bidirectional preference switched off, with ids that exist and   *)
(* ids that do not.  No query is made here, so the order of                *)
(* the card ids is not read and the ids in use are the first of CardIds.   *)
CreateStoreDeck ==
  /\ Cardinality(DOMAIN decks) < MaxDecks
  /\ \E prefs \in StorePrefsInputs : create_deck_call(prefs)

AddNote ==
  /\ Cardinality(DOMAIN notes) < MaxNotes
  /\ \E deck_id \in DeckIds :
       \E p \in FreshCardIds(decks, cards, deck_id) : add_note_call(deck_id, p[1], p[2])
  /\ DOMAIN cards' = 1..Cardinality(DOMAIN cards')

SwitchPreference ==
  \E deck_id \in DeckIds, preferences \in StorePartialInputs :
    update_deck_preferences(deck_id, preferences)

ReviewStored ==
  /\ Len(review_log) < MaxStoreReviews
  /\ \E card_id \in CardIds, rating \in StoreRatings, fuzz_factor \in CountFuzzFactors :
       review(card_id, rating, StoreAnswerMs, fuzz_factor)

NextStore ==
  \/ CreateStoreDeck
  \/ AddNote
  \/ SwitchPreference
  \/ ReviewStored

SpecStore == InitStore /\ [][NextStore]_vars

(* lapse and recovery: one card graded Again, Good or Easy, with every row *)
(* of review_log kept                                                      *)
ReviewLapse ==
  /\ Len(review_log) < MaxLapseReviews
  /\ \E card_id \in DOMAIN cards, rating \in LapseRatings,
        answer_ms \in StepAnswerMsInputs, fuzz_factor \in LapseFuzzFactors :
       review(card_id, rating, answer_ms, fuzz_factor)

NextLapse == ReviewLapse

SpecLapse == InitCard /\ [][NextLapse]_vars

(* cards rated Again: cards are graded, with every row of review_log kept, *)
(* and suspended, queues are built and time passes, in any order           *)
ReviewAgain ==
  /\ Len(review_log) < MaxAgainReviews
  /\ \E card_id \in DOMAIN cards, rating \in Ratings,
        answer_ms \in StepAnswerMsInputs, fuzz_factor \in CountFuzzFactors :
       review(card_id, rating, answer_ms, fuzz_factor)

NextAgain ==
  \/ Pass
  \/ ReviewAgain
  \/ Suspend
  \/ BuildSessionUncapped

SpecAgain == Init /\ [][NextAgain]_vars

(* The merge loops.  The store holds one deck that is not bidirectional,   *)
(* with up to MaxPoolCards notes of one card each, added at StartClock;    *)
(* some were graded then, Good (now Learning) or Easy (now Review), and    *)
(* five days have passed, so that every card is due.  The rows of          *)
(* review_log are left out, as where the session builders are followed.    *)
PoolPrefs ==
  [new_per_day |-> 10, rev_per_day |-> 100, steps_min |-> <<1, 10>>,
   bidirectional_cards |-> FALSE]

PoolStates == {"learning", "review", "new"}

PoolCard(note_id, st) ==
  LET card == NewCard(note_id, "front->back", StartClock)
      n == calculate_next_state(card, IF st = "learning" THEN GOOD ELSE EASY,
                                StartClock, 100)
  IN  IF st = "new" THEN card
      ELSE [card EXCEPT !.state = n.state, !.due_ts = n.due_ts,
                        !.interval_days = n.interval_days, !.ease = n.ease,
                        !.lapses = n.lapses, !.step_index = n.step_index,
                        !.last_review_ts = StartClock]

InitMerge ==
  \E count \in 0..MaxPoolCards :
    \E st \in [1..count -> PoolStates] :
      LET graded == Cardinality({c \in 1..count : st[c] # "new"})
      IN  /\ decks = create_deck(<<>>, PoolPrefs)
          /\ notes = [n \in 1..count |-> [deck_id |-> 1]]
          /\ cards = [c \in 1..count |-> PoolCard(c, st[c])]
          /\ daily_stats =
               IF graded = 0 THEN <<>>
               ELSE [k \in {<<1, get_study_date(StartClock)>>} |->
                       [new_studied |-> graded, rev_studied |-> 0]]
          /\ clock = StartClock + 432000
          /\ session = NoSession
          /\ suspended = {}
          /\ nticks = 0
          /\ review_log = <<>>
          /\ calls = NoCalls
          /\ merge = NoMerge

(* the cards of a state in the order the queries return cards of equal due *)
(* time in: by id                                                          *)
PoolOf(st) == OrderedById({c \in DOMAIN cards : cards[c].state = st})

(* _interleave_anki_style(card_groups) is entered with the three groups    *)
interleave_anki_style_start ==
  /\ merge.pc # "loop"
  /\ merge' = merge_start("_interleave_anki_style", PoolOf("learning"),
                          PoolOf("review"), PoolOf("new"), <<>>)
  /\ UNCHANGED <<decks, notes, cards, daily_stats, clock, session, suspended,
                 nticks, review_log, calls>>

(* the loop test and one iteration of _interleave_anki_style, or its       *)
(* return                                                                  *)
interleave_anki_style_step ==
  /\ merge.pc = "loop"
  /\ merge.builder = "_interleave_anki_style"
  /\ merge' = IF pools_left(merge) THEN interleave_iteration(merge)
              ELSE [merge EXCEPT !.pc = "done"]
  /\ UNCHANGED <<decks, notes, cards, daily_stats, clock, session, suspended,
                 nticks, review_log, calls>>

(* _build_anki_session(learning_cards, new_cards, review_cards,            *)
(* future_learning) is entered; no Learning card the query of              *)
(* build_session returns is due after the session window, so               *)
(* future_learning is empty                                                *)
build_anki_session_start ==
  /\ merge.pc # "loop"
  /\ merge' = merge_start("_build_anki_session", PoolOf("learning"),
                          PoolOf("review"), PoolOf("new"), <<>>)
  /\ UNCHANGED <<decks, notes, cards, daily_stats, clock, session, suspended,
                 nticks, review_log, calls>>

(* the loop test and one iteration of _build_anki_session, or              *)
(* session.extend(future_learning) and its return                          *)
build_anki_session_step ==
  /\ merge.pc = "loop"
  /\ merge.builder = "_build_anki_session"
  /\ merge' = IF pools_left(merge) THEN build_iteration(merge)
              ELSE [merge EXCEPT !.pc = "done",
                                 !.queue = @ \o merge.future_learning]
  /\ UNCHANGED <<decks, notes, cards, daily_stats, clock, session, suspended,
                 nticks, review_log, calls>>

NextMerge ==
  \/ interleave_anki_style_start
  \/ interleave_anki_style_step
  \/ build_anki_session_start
  \/ build_anki_session_step

SpecMerge == InitMerge /\ [][NextMerge]_vars

(* a loop that is running goes on running: the thread that entered it      *)
(* executes its next iteration                                             *)
SpecMergeLive ==
  /\ InitMerge
  /\ [][NextMerge]_vars
  /\ WF_vars(interleave_anki_style_step)
  /\ WF_vars(build_anki_session_step)

(* the session window: cards are graded, time passes, and queues are built *)
(* for the time of the call or for a time an hour before it, which the     *)
(* caller passes as now_ts                                                 *)
BuildTimes == {clock - 3600, clock}

BuildAnkiSessionAt ==
  /\ session = NoSession
  /\ \E deck_ids \in SUBSET DOMAIN decks, now_ts \in BuildTimes :
       build_anki_session_at(deck_ids, now_ts)

BuildSessionAt ==
  /\ session = NoSession
  /\ \E deck_ids \in SUBSET DOMAIN decks, now_ts \in BuildTimes :
       build_session_at(deck_ids, now_ts)

NextWindow ==
  \/ Pass
  \/ Review
  \/ BuildAnkiSessionAt
  \/ BuildSessionAt

SpecWindow == Init /\ [][NextWindow]_vars

(* due times: one card graded at times that never go back, suspended and  *)
(* queued, in any order                                                    *)
ReviewDue ==
  /\ TotalStudied < MaxDueReviews
  /\ \E card_id \in DOMAIN cards, rating \in Ratings, fuzz_factor \in FuzzFactors :
       grade(card_id, rating, fuzz_factor)
  /\ UNCHANGED review_log

NextDue ==
  \/ Pass
  \/ ReviewDue
  \/ Suspend
  \/ BuildAnkiSession
  \/ BuildSessionUncapped

SpecDue == InitCard /\ [][NextDue]_vars

(* the states of cards: notes are added to a deck that exists or to one    *)
(* that does not, cards are graded, suspended and queued, and preferences  *)
(* updated, in any order                                                   *)
ReviewStates ==
  /\ TotalStudied < MaxStateReviews
  /\ \E card_id \in DOMAIN cards, rating \in Ratings, fuzz_factor \in CountFuzzFactors :
       grade(card_id, rating, fuzz_factor)
  /\ UNCHANGED review_log

UpdateLimits ==
  \E deck_id \in DOMAIN decks, preferences \in StatesPartialInputs :
    update_deck_preferences(deck_id, preferences)

NextStates ==
  \/ AddNote
  \/ ReviewStates
  \/ Suspend
  \/ BuildAnkiSession
  \/ BuildSessionUncapped
  \/ UpdateLimits

SpecStates == InitCard /\ [][NextStates]_vars

(* The review loop of the application (on_card_rated and                   *)
(* rebuild_review_queue): a queue is built, its first card graded Good and *)
(* the queue built again, until a queue is empty; the clock stands still   *)
(* and no note is added.  The store is one deck with up to MaxLoopCards    *)
(* cards, New, Learning or Review and all due, as where the merge loops    *)
(* are followed, with daily limits small enough to hold cards back.  The   *)
(* rows of review_log are those of the gradings of the loop.               *)
LoopPrefs ==
  [new_per_day |-> 2, rev_per_day |-> 3, steps_min |-> <<1, 10>>,
   bidirectional_cards |-> FALSE]

InitLoop ==
  \E count \in 0..MaxLoopCards :
    \E st \in [1..count -> PoolStates] :
      LET graded == Cardinality({c \in 1..count : st[c] # "new"})
      IN  /\ decks = create_deck(<<>>, LoopPrefs)
          /\ notes = [n \in 1..count |-> [deck_id |-> 1]]
          /\ cards = [c \in 1..count |-> PoolCard(c, st[c])]
          /\ daily_stats =
               IF graded = 0 THEN <<>>
               ELSE [k \in {<<1, get_study_date(StartClock)>>} |->
                       [new_studied |-> graded, rev_studied |-> 0]]
          /\ clock = StartClock + 432000
          /\ session = NoSession
          /\ suspended = {}
          /\ nticks = 0
          /\ review_log = <<>>
          /\ calls = NoCalls
          /\ merge = NoMerge

RebuildReviewQueue ==
  /\ session = NoSession
  /\ build_session(DOMAIN decks, LoopMaxNew, LoopMaxRev)

OnCardRated ==
  /\ session # NoSession
  /\ session.queue # <<>>
  /\ \E answer_ms \in StepAnswerMsInputs, fuzz_factor \in LapseFuzzFactors :
       review(session.queue[1], GOOD, answer_ms, fuzz_factor)

NextLoop ==
  \/ RebuildReviewQueue
  \/ OnCardRated

(* the application goes on: it builds the queue when it holds none and     *)
(* the user grades the card shown                                          *)
SpecLoop ==
  /\ InitLoop
  /\ [][NextLoop]_vars
  /\ WF_vars(RebuildReviewQueue)
  /\ WF_vars(OnCardRated)

(* ------------------------------ properties ----------------------------- *)
Queue == session.queue
QueueCards == SeqRange(session.queue)
QueueCount(st) == Cardinality({c \in QueueCards : cards[c].state = st})
QueueCountOfDeck(st, deck_id) ==
  Cardinality({c \in QueueCards : cards[c].state = st /\ DeckOf(c) = deck_id})
Remaining(limit, studied) == IF limit - studied > 0 THEN limit - studied ELSE 0
RemainingNew(deck_id) ==
  Remaining(decks[deck_id].new_per_day,
            get_daily_stats(deck_id, get_study_date(clock)).new_studied)
RemainingRev(deck_id) ==
  Remaining(decks[deck_id].rev_per_day,
            get_daily_stats(deck_id, get_study_date(clock)).rev_studied)
RemainingNewSum(deck_ids) == SumOver(deck_ids, [d \in deck_ids |-> RemainingNew(d)])
RemainingRevSum(deck_ids) == SumOver(deck_ids, [d \in deck_ids |-> RemainingRev(d)])

(* C1: when every grading is of a card of the queue built just before it,  *)
(* the gradings of New cards counted for a deck on a study date never      *)
(* exceed the deck's new_per_day (no grading is counted for a date before  *)
(* its first one, so the count at the start of every date is 0).           *)
C1_NewGradingsWithinQuota ==
  \A k \in DOMAIN daily_stats :
    daily_stats[k].new_studied <= Max(0, decks[k[1]].new_per_day)

(* notes with a Learning card of the requested decks due within the       *)
(* session window                                                          *)
LearningPoolNotes(deck_ids) ==
  {cards[c].note_id : c \in {x \in DOMAIN cards :
      /\ DeckOf(x) \in deck_ids
      /\ cards[x].state = "learning"
      /\ cards[x].due_ts <= clock + 1800}}

C4_BuildSessionSiblingsBuried ==
  session.builder = "build_session" =>
    \A c, b \in QueueCards :
      (cards[c].note_id = cards[b].note_id /\ cards[c].state = "learning")
        => cards[b].state \notin {"review", "new"}

(* C5: a queue of build_anki_session holds at most the sum of the          *)
(* remaining new quotas of the requested decks in New cards and at most    *)
(* the sum of their remaining review quotas in Review cards                *)
C5_AnkiQuota ==
  session.builder = "build_anki_session" =>
    /\ QueueCount("new") <= RemainingNewSum(session.deck_ids)
    /\ QueueCount("review") <= RemainingRevSum(session.deck_ids)

NewCandidates(deck_ids) ==
  {c \in DOMAIN cards : DeckOf(c) \in deck_ids /\ cards[c].state = "new"}

C7_SuspendedNeverQueued ==
  \A c \in QueueCards : c \notin suspended

(* a queue built over the deck of a card that was suspended while New and  *)
(* graded after that                                                       *)
C7_Witness ==
  /\ session.builder # "none"
  /\ Queue # <<>>
  /\ \E c \in suspended :
       /\ DeckOf(c) \in session.deck_ids
       /\ cards[c].state = "suspended"
       /\ cards[c].last_review_ts # None
       /\ cards[c].due_ts = StartClock
       /\ cards[c].interval_days = 0

(* C2: every card's ease is at least 1.3, whatever ratings are given *)
C2_EaseFloor ==
  \A c \in DOMAIN cards : cards[c].ease >= 130

(* a card that lapsed from Review seven times: six lapses take the ease    *)
(* from 2.5 to 1.3 and the seventh leaves it there                         *)
C2_Witness ==
  \E c \in DOMAIN cards :
    /\ cards[c].ease = 130
    /\ cards[c].lapses = 7
    /\ cards[c].state = "learning"
    /\ cards[c].interval_days >= 1000
    /\ TotalStudied = 14

C9_DeckStepsApplied ==
  [][\A c \in DOMAIN cards, f \in FuzzFactors :
       LET steps == decks[DeckOf(c)].steps_min
           i == cards[c].step_index
       IN  grade(c, GOOD, f) =>
             /\ cards[c].state = "new" => cards'[c].due_ts = clock + steps[1] * 60
             /\ (cards[c].state = "learning" /\ i < Len(steps) - 1) =>
                  /\ cards'[c].state = "learning"
                  /\ cards'[c].due_ts = clock + steps[i + 2] * 60]_vars

RowsOf(card_id) ==
  LET Test(row) == row.card_id = card_id IN SelectSeq(review_log, Test)

HasGraduated(card_id) ==
  \E i \in DOMAIN review_log :
    review_log[i].card_id = card_id /\ review_log[i].prev_state = "review"

(* C13: Again on a Learning card puts it at step 0, due one minute after   *)
(* now, and adds a lapse only when the card had graduated to Review        *)
(* before; the lapses of a card that never was in Review stay as they are  *)
C13_LearningAgainLapses ==
  [][\A c \in DOMAIN cards, f \in FuzzFactors :
       (cards[c].state = "learning" /\ grade(c, AGAIN, f)) =>
         /\ cards'[c].state = "learning"
         /\ cards'[c].step_index = 0
         /\ cards'[c].due_ts = clock + LEARNING_STEPS[1] * 60
         /\ cards'[c].lapses =
              (IF HasGraduated(c) THEN cards[c].lapses + 1 ELSE cards[c].lapses)]_vars

(* C14: Hard on a Review card of interval I and ease E keeps it in Review  *)
(* with ease max(1.3, E - 0.15) and the interval max(1, I x 1.2) times a   *)
(* fuzz factor of 0.95 to 1.05, due that interval after now; from I = 5.0  *)
(* and E = 2.5 the ease is 2.35 and the interval within [5.7, 6.3]         *)
C14_ReviewCardHard ==
  [][/\ \A c \in DOMAIN cards, f \in FuzzFactors :
          (cards[c].state = "review" /\ grade(c, HARD, f)) =>
            LET I == cards[c].interval_days
                E == cards[c].ease
                base == IF (I * 12) \div 10 > 1000 THEN (I * 12) \div 10 ELSE 1000
            IN  /\ cards'[c].state = "review"
                /\ cards'[c].ease = (IF E - 15 > 130 THEN E - 15 ELSE 130)
                /\ cards'[c].interval_days = (base * f) \div 100
                /\ cards'[c].due_ts = clock + (cards'[c].interval_days * 432) \div 5
     /\ \A f \in FuzzFactors :
          LET n == calculate_next_state(
                     [state |-> "review", due_ts |-> clock, interval_days |-> 5000,
                      ease |-> 250, lapses |-> 0, step_index |-> 0], HARD, clock, f)
          IN  n.ease = 235 /\ n.interval_days >= 5700 /\ n.interval_days <= 6300]_vars

(* a Review card of interval one day whose ease was 1.3 already, rated     *)
(* Hard at the fifteenth grading: the ease stays at the floor              *)
C14_Witness ==
  \E c \in DOMAIN cards :
    /\ cards[c].state = "review"
    /\ cards[c].ease = 130
    /\ cards[c].interval_days \in {1140, 1200, 1260}
    /\ TotalStudied = 15

(* the days a card is late at the clock, in thousandths of a day *)
DaysLate(c) ==
  IF clock > cards[c].due_ts THEN ((clock - cards[c].due_ts) * 5) \div 432 ELSE 0

(* C15: Good on a Review card of interval I and ease E that is L days late *)
(* keeps it in Review with ease E and the interval (I + L/2) x E times a   *)
(* fuzz factor of 0.95 to 1.05, and that interval is greater than I, also  *)
(* from the least interval and the least ease a Review card can have       *)
C15_ReviewCardGood ==
  [][/\ \A c \in DOMAIN cards, f \in FuzzFactors :
          (cards[c].state = "review" /\ grade(c, GOOD, f)) =>
            LET I == cards[c].interval_days
                E == cards[c].ease
                L == DaysLate(c)
            IN  /\ cards'[c].state = "review"
                /\ cards'[c].ease = E
                /\ cards'[c].interval_days = ((((I + L \div 2) * E) \div 100) * f) \div 100
                /\ cards'[c].interval_days > I
     /\ \A f \in FuzzFactors :
          calculate_next_state(
            [state |-> "review", due_ts |-> clock, interval_days |-> 1000,
             ease |-> 130, lapses |-> 0, step_index |-> 0], GOOD, clock, f).interval_days > 1000]_vars

(* a card that graduated with Easy and was rated Good when late: its       *)
(* interval is beyond what Good gives a card that is on time               *)
C15_Witness ==
  \E c \in DOMAIN cards :
    /\ cards[c].state = "review"
    /\ cards[c].ease = 250
    /\ cards[c].lapses = 0
    /\ cards[c].interval_days > 11025
    /\ TotalStudied = 2

(* C16: Easy on a Review card of interval I and ease E that is L days late *)
(* sets the ease to E + 0.15 and the interval to (I + L) x E x 1.3 times   *)
(* the fuzz factor, E being the ease before the grading                    *)
C16_ReviewCardEasy ==
  [][\A c \in DOMAIN cards, f \in FuzzFactors :
       (cards[c].state = "review" /\ grade(c, EASY, f)) =>
         LET I == cards[c].interval_days
             E == cards[c].ease
             L == DaysLate(c)
             unfuzzed == ((((I + L) * E) \div 100) * 130) \div 100
         IN  /\ cards'[c].ease = E + 15
             /\ cards'[c].interval_days = (unfuzzed * f) \div 100]_vars

(* C17: every card's interval_days is at least 0, whatever was graded *)
C17_IntervalNotNegative ==
  \A c \in DOMAIN cards : cards[c].interval_days >= 0

(* a card that lapsed and was graded in relearning: the interval stored at *)
(* the lapse gave way to 0                                                 *)
C17_Witness ==
  \E c \in DOMAIN cards :
    /\ cards[c].state = "learning"
    /\ cards[c].step_index = 1
    /\ cards[c].lapses >= 1
    /\ cards[c].ease < 250
    /\ cards[c].interval_days = 0

(* C18: grading a Suspended card, with any rating, changes no field of the *)
(* card, the time of its last review included, and no daily_stats counter  *)
C18_SuspendedCardGraded ==
  [][\A c \in DOMAIN cards, r \in Ratings, f \in FuzzFactors :
       (cards[c].state = "suspended" /\ grade(c, r, f)) =>
         /\ cards'[c] = cards[c]
         /\ daily_stats' = daily_stats]_vars

(* C19: every review of a card, in whatever state, appends one row to      *)
(* review_log with the rating and answer duration given, the state and     *)
(* interval the card had before and the interval stored on it after; rows  *)
(* are appended by review only and the rows there are stay as they are     *)
C19_ReviewLogged ==
  [][/\ \A c \in DOMAIN cards, r \in Ratings, a \in AnswerMsInputs, f \in FuzzFactors :
          review(c, r, a, f) =>
            LET row == review_log'[Len(review_log')]
            IN  /\ Len(review_log') = Len(review_log) + 1
                /\ row.card_id = c
                /\ row.rating = r
                /\ row.answer_ms = a
                /\ row.prev_state = cards[c].state
                /\ row.prev_interval = cards[c].interval_days
                /\ row.next_interval = cards'[c].interval_days
     /\ Len(review_log') >= Len(review_log)
     /\ SubSeq(review_log', 1, Len(review_log)) = review_log
     /\ Len(review_log') > Len(review_log) =>
          \E c \in DOMAIN cards, r \in Ratings, a \in AnswerMsInputs, f \in FuzzFactors :
            review(c, r, a, f)]_vars

(* a card graded while New, then suspended and graded again with another   *)
(* answer duration: two rows, the second with the state Suspended          *)
C19_Witness ==
  /\ Len(review_log) = 2
  /\ review_log[1].card_id = review_log[2].card_id
  /\ review_log[1].prev_state = "new"
  /\ review_log[1].next_interval > 0
  /\ review_log[2].prev_state = "suspended"
  /\ review_log[2].prev_interval = review_log[1].next_interval
  /\ review_log[1].answer_ms # review_log[2].answer_ms

(* C20: after a review the card in the store has the state, due time,      *)
(* interval, ease, lapses and step index the state machine computed from   *)
(* the card as it was read at the start of the call                        *)
C20_StoredAsComputed ==
  [][\A c \in DOMAIN cards, r \in Ratings, f \in FuzzFactors :
       grade(c, r, f) =>
         LET n == calculate_next_state(cards[c], r, clock, f)
         IN  /\ cards'[c].state = n.state
             /\ cards'[c].due_ts = n.due_ts
             /\ cards'[c].interval_days = n.interval_days
             /\ cards'[c].ease = n.ease
             /\ cards'[c].lapses = n.lapses
             /\ cards'[c].step_index = n.step_index]_vars

(* a card that graduated with Easy and lapsed later: the second grading    *)
(* changed its state, due time, interval, ease and lapses                  *)
C20_Witness ==
  \E c \in DOMAIN cards :
    /\ cards[c].state = "learning"
    /\ cards[c].lapses = 1
    /\ cards[c].ease = 230
    /\ cards[c].interval_days >= 1900
    /\ cards[c].due_ts = cards[c].last_review_ts + 60
    /\ cards[c].last_review_ts > StartClock
    /\ TotalStudied = 2

(* C21: a review of a card adds 1 to new_studied of the row of the card's  *)
(* deck and the study date of now when the card was New, 1 to rev_studied  *)
(* of that row when it was Learning or Review, and leaves the other        *)
(* counter of the row and every other row as they were                     *)
C21_GradingCounted ==
  [][\A c \in DOMAIN cards, r \in Ratings, f \in CountFuzzFactors :
       (cards[c].state \in {"new", "learning", "review"} /\ grade(c, r, f)) =>
         LET k == <<DeckOf(c), get_study_date(clock)>>
             old == IF k \in DOMAIN daily_stats THEN daily_stats[k]
                    ELSE [new_studied |-> 0, rev_studied |-> 0]
         IN  /\ DOMAIN daily_stats' = DOMAIN daily_stats \cup {k}
             /\ daily_stats'[k].new_studied =
                  old.new_studied + (IF cards[c].state = "new" THEN 1 ELSE 0)
             /\ daily_stats'[k].rev_studied =
                  old.rev_studied + (IF cards[c].state = "new" THEN 0 ELSE 1)
             /\ \A j \in DOMAIN daily_stats : j # k => daily_stats'[j] = daily_stats[j]]_vars

(* a card was graded while New before the rollover and while Learning      *)
(* after it: the row of the earlier study date stayed as it was            *)
C21_Witness ==
  \E d \in DOMAIN decks :
    LET s == get_study_date(StartClock)
        t == get_study_date(clock)
    IN  /\ s # t
        /\ {<<d, s>>, <<d, t>>} \subseteq DOMAIN daily_stats
        /\ daily_stats[<<d, s>>] = [new_studied |-> 1, rev_studied |-> 0]
        /\ daily_stats[<<d, t>>] = [new_studied |-> 0, rev_studied |-> 1]

(* the fields _calculate_next_state returns are the fields of the card *)
StoredFieldsAre(card_id, n) ==
  /\ cards[card_id].state = n.state
  /\ cards[card_id].due_ts = n.due_ts
  /\ cards[card_id].interval_days = n.interval_days
  /\ cards[card_id].ease = n.ease
  /\ cards[card_id].lapses = n.lapses
  /\ cards[card_id].step_index = n.step_index

(* the row of review_log is the one the call appends: its arguments, the   *)
(* state and interval of the row it read and the interval it computed      *)
RowOfCall(row, call) ==
  /\ row.card_id = call.card_id
  /\ row.rating = call.rating
  /\ row.answer_ms = call.answer_ms
  /\ row.prev_state = call.card.state
  /\ row.prev_interval = call.card.interval_days
  /\ row.next_interval =
       calculate_next_state(call.card, call.rating, call.now_ts,
                            call.fuzz_factor).interval_days

(* C22: when two calls of review on one card have run with their           *)
(* statements interleaved, the card has the fields computed by the call    *)
(* whose UPDATE came last, from the row that call read, and review_log has *)
(* two rows, one of each call                                              *)
C22_InterleavedReviews ==
  \A p, q \in Callers :
    (/\ p # q
     /\ calls[p].pc = "done" /\ calls[q].pc = "done"
     /\ calls[p].card_id = calls[q].card_id
     /\ calls[p].write_no > calls[q].write_no) =>
      /\ StoredFieldsAre(calls[p].card_id,
                         calculate_next_state(calls[p].card, calls[p].rating,
                                              calls[p].now_ts, calls[p].fuzz_factor))
      /\ Len(review_log) = 2
      /\ \E i, j \in 1..2 :
           /\ i # j
           /\ RowOfCall(review_log[i], calls[p])
           /\ RowOfCall(review_log[j], calls[q])

(* both calls read the card while it was New, one rated it Good and the    *)
(* other Easy, and the UPDATE of the Good came last: the card is Learning  *)
(* and both gradings are logged and counted as gradings of a New card      *)
C22_Witness ==
  \E p, q \in Callers :
    /\ calls[p].pc = "done" /\ calls[q].pc = "done"
    /\ calls[p].card.state = "new" /\ calls[q].card.state = "new"
    /\ calls[p].rating = GOOD /\ calls[q].rating = EASY
    /\ calls[p].write_no > calls[q].write_no
    /\ cards[calls[p].card_id].state = "learning"
    /\ Len(review_log) = 2
    /\ review_log[1].rating = GOOD
    /\ review_log[2].prev_state = "new"

(* the tables an operation on the store writes to *)
StoreTables == <<decks, notes, cards, review_log, daily_stats>>

(* C23: review and suspend with the id of no card, and                     *)
(* update_deck_preferences and add_note with the id of no deck, leave      *)
(* decks, notes, cards, review_log and daily_stats as they were            *)
C23_UnknownIdNoChange ==
  [][/\ \A card_id \in CardIds \ DOMAIN cards :
          /\ (\E r \in Ratings, f \in FuzzFactors : review(card_id, r, StoreAnswerMs, f))
                => UNCHANGED StoreTables
          /\ suspend_card(card_id) => UNCHANGED StoreTables
     /\ \A deck_id \in DeckIds \ DOMAIN decks :
          /\ (\E p \in PartialPrefsInputs \cup StorePartialInputs :
                 update_deck_preferences(deck_id, p)) => UNCHANGED StoreTables
          /\ (/\ Cardinality(DOMAIN notes) < MaxNotes
              /\ \E p \in FreshCardIds(decks, cards, deck_id) :
                   add_note_call(deck_id, p[1], p[2]))
                => UNCHANGED StoreTables]_vars

(* C24: update_deck_preferences stores the deck's preferences with the     *)
(* keys passed overriding them, rev_per_day being 10 x new_per_day         *)
(* whenever new_per_day is passed; a key that is not passed keeps its      *)
(* value (but for that rev_per_day), and no other deck changes             *)
C24_PreferencesMerged ==
  [][\A deck_id \in DOMAIN decks, p \in PartialPrefsInputs :
       update_deck_preferences(deck_id, p) =>
         LET old == decks[deck_id]
             new == decks'[deck_id]
             derived == "new_per_day" \in DOMAIN p
         IN  /\ DOMAIN new = DOMAIN old \cup DOMAIN p
                               \cup (IF derived THEN {"rev_per_day"} ELSE {})
             /\ \A k \in DOMAIN p :
                  (k # "rev_per_day" \/ ~derived) => new[k] = p[k]
             /\ derived => new["rev_per_day"] = 10 * new["new_per_day"]
             /\ \A k \in DOMAIN old \ DOMAIN p :
                  (k # "rev_per_day" \/ ~derived) => new[k] = old[k]
             /\ \A d \in DOMAIN decks \ {deck_id} : decks'[d] = decks[d]]_vars

(* a deck created with the steps [10, 1440] whose new_per_day was set to 3 *)
(* and whose steps were kept, next to a deck that kept its limit of 10     *)
C24_Witness ==
  \E d, e \in DOMAIN decks :
    /\ decks[d]["new_per_day"] = 3
    /\ decks[d]["rev_per_day"] = 30
    /\ decks[d]["steps_min"] = <<10, 1440>>
    /\ decks[e]["new_per_day"] = 10

(* C25: a rev_per_day passed to update_deck_preferences is the rev_per_day *)
(* of the deck after the call, with new_per_day passed along or not        *)
C25_ExplicitRevPerDay ==
  [][\A deck_id \in DOMAIN decks, p \in PartialPrefsInputs :
       ("rev_per_day" \in DOMAIN p /\ update_deck_preferences(deck_id, p)) =>
         decks'[deck_id]["rev_per_day"] = p["rev_per_day"]]_vars

(* C26: the limits stored for a deck are never negative and its list of    *)
(* learning steps is never empty, whatever create_deck and                 *)
(* update_deck_preferences were given                                      *)
C26_PreferencesValid ==
  \A d \in DOMAIN decks :
    /\ decks[d]["new_per_day"] >= 0
    /\ decks[d]["rev_per_day"] >= 0
    /\ decks[d]["steps_min"] # <<>>

(* the reverse card add_note makes for a deck: the value of                *)
(* bidirectional_cards, which is set when the key is absent                *)
Bidirectional(deck_id) ==
  IF "bidirectional_cards" \in DOMAIN decks[deck_id]
    THEN decks[deck_id].bidirectional_cards ELSE TRUE

CardsOf(note_id, template) ==
  {c \in DOMAIN cards : cards[c].note_id = note_id /\ cards[c].template = template}

(* C27: add_note to a deck adds one note and with it one front->back card  *)
(* and, exactly when the deck's bidirectional preference is set, one       *)
(* back->front card, each New with interval 0, ease 2.5, no lapse and step *)
(* index 0, and changes no other card; in every state a note has at most   *)
(* one card of each direction                                              *)
C27_CardsOfNote ==
  /\ [](\A n \in DOMAIN notes, t \in {"front->back", "back->front"} :
          Cardinality(CardsOf(n, t)) <= 1)
  /\ [][\A deck_id \in DOMAIN decks :
        \A p \in FreshCardIds(decks, cards, deck_id) :
          (Cardinality(DOMAIN notes) < MaxNotes /\ add_note_call(deck_id, p[1], p[2])) =>
            LET added == DOMAIN cards' \ DOMAIN cards
                noted == DOMAIN notes' \ DOMAIN notes
                forward == {c \in added : cards'[c].template = "front->back"}
                reverse == {c \in added : cards'[c].template = "back->front"}
            IN  /\ Cardinality(noted) = 1
                /\ \A n \in noted : notes'[n].deck_id = deck_id
                /\ added = forward \cup reverse
                /\ Cardinality(forward) = 1
                /\ Cardinality(reverse) = (IF Bidirectional(deck_id) THEN 1 ELSE 0)
                /\ \A c \in added :
                     /\ cards'[c].note_id \in noted
                     /\ cards'[c].state = "new"
                     /\ cards'[c].interval_days = 0
                     /\ cards'[c].ease = 250
                     /\ cards'[c].lapses = 0
                     /\ cards'[c].step_index = 0
                /\ \A c \in DOMAIN cards : cards'[c] = cards[c]]_vars

(* a note with both cards in a deck whose bidirectional preference was     *)
(* switched off after that, and a later note of the same deck with the     *)
(* front->back card alone                                                  *)
C27_Witness ==
  \E n, m \in DOMAIN notes :
    /\ n # m
    /\ notes[n].deck_id = notes[m].deck_id
    /\ notes[n].deck_id \in DOMAIN decks
    /\ Cardinality(CardsOf(n, "front->back")) = 1
    /\ Cardinality(CardsOf(n, "back->front")) = 1
    /\ Cardinality(CardsOf(m, "front->back")) = 1
    /\ CardsOf(m, "back->front") = {}

(* C28: when a Learning card of the requested decks is due at the time of  *)
(* the call, the queue of build_session begins with a Learning card        *)
C28_LearningFirst ==
  (/\ session.builder = "build_session"
   /\ \E c \in DOMAIN cards :
        /\ DeckOf(c) \in session.deck_ids
        /\ cards[c].state = "learning"
        /\ cards[c].due_ts <= clock) =>
    /\ Queue # <<>>
    /\ cards[Queue[1]].state = "learning"

(* the gradings of cards of a deck that review_log holds for a study date *)
GradingsOn(deck_id, study_date) ==
  {i \in DOMAIN review_log :
     /\ DeckOf(review_log[i].card_id) = deck_id
     /\ review_log[i].prev_state \in {"new", "learning", "review"}
     /\ (IF (review_log[i].ts % 86400) \div 3600 >= 4
           THEN review_log[i].ts \div 86400
           ELSE review_log[i].ts \div 86400 - 1) = study_date}

(* C29: the study date of a timestamp is its calendar day when its hour is *)
(* 4 or later and the day before when it is earlier; the row of a deck and *)
(* a study date counts the gradings made at the times of that study date   *)
(* and no other, and on a study date with no grading yet the remaining     *)
(* quotas of a deck are its full limits                                    *)
C29_StudyDateRollover ==
  /\ get_study_date(clock) =
       (IF (clock % 86400) \div 3600 >= 4 THEN clock \div 86400
        ELSE clock \div 86400 - 1)
  /\ \A k \in DOMAIN daily_stats :
       daily_stats[k].new_studied + daily_stats[k].rev_studied
         = Cardinality(GradingsOn(k[1], k[2]))
  /\ \A d \in DOMAIN decks :
       GradingsOn(d, get_study_date(clock)) = {} =>
         /\ RemainingNew(d) = decks[d].new_per_day
         /\ RemainingRev(d) = decks[d].rev_per_day

(* the New card of a deck with new_per_day 1 was graded at 03:59, which    *)
(* used the quota up, and graded again after 04:00: the gradings are in    *)
(* two rows and the new quota of the deck is 1 again                       *)
C29_Witness ==
  \E d \in DOMAIN decks :
    /\ get_study_date(StartClock) # get_study_date(clock)
    /\ <<d, get_study_date(StartClock)>> \in DOMAIN daily_stats
    /\ <<d, get_study_date(clock)>> \in DOMAIN daily_stats
    /\ daily_stats[<<d, get_study_date(StartClock)>>].new_studied = decks[d].new_per_day
    /\ daily_stats[<<d, get_study_date(clock)>>].rev_studied = 1
    /\ RemainingNew(d) = decks[d].new_per_day
    /\ decks[d].new_per_day > 0

StateAfterRow(i) ==
  LET later == {j \in DOMAIN review_log :
                  j > i /\ review_log[j].card_id = review_log[i].card_id}
  IN  IF later = {} THEN cards[review_log[i].card_id].state
      ELSE review_log[CHOOSE j \in later : \A k \in later : j <= k].prev_state

(* C31: a Review card rated Again and then Good at each of the learning    *)
(* steps is in state Review again, with an interval of one day fuzzed      *)
(* (1.0 to 1.05 days), whatever its interval was before the lapse          *)
C31_LapseAndRecovery ==
  \A i \in DOMAIN review_log :
    (/\ i + Len(LEARNING_STEPS) \in DOMAIN review_log
     /\ review_log[i].prev_state = "review"
     /\ review_log[i].rating = AGAIN
     /\ \A k \in 1..Len(LEARNING_STEPS) :
          /\ review_log[i + k].card_id = review_log[i].card_id
          /\ review_log[i + k].rating = GOOD) =>
      LET last == i + Len(LEARNING_STEPS)
      IN  /\ StateAfterRow(last) = "review"
          /\ review_log[last].next_interval >= 1000
          /\ review_log[last].next_interval <= 1050
          /\ \A k \in 1..(Len(LEARNING_STEPS) - 1) :
               StateAfterRow(i + k) = "learning"

(* a card that had reached an interval of more than four days lapsed, was  *)
(* graded Good twice and is in Review with an interval of 1.05 days        *)
C31_Witness ==
  /\ Len(review_log) = 5
  /\ review_log[3].prev_state = "review"
  /\ review_log[3].rating = AGAIN
  /\ review_log[3].prev_interval > 4000
  /\ review_log[4].rating = GOOD
  /\ review_log[5].rating = GOOD
  /\ cards[review_log[5].card_id].state = "review"
  /\ cards[review_log[5].card_id].interval_days = 1050

(* the rows of review_log of a card *)
RowsOfCard(c) == {i \in DOMAIN review_log : review_log[i].card_id = c}

(* the last grading of card c was rated Again and found it New, Learning   *)
(* or Review, and the card has not been suspended since                    *)
LastRatedAgain(c) ==
  /\ RowsOfCard(c) # {}
  /\ LET last == CHOOSE i \in RowsOfCard(c) : \A j \in RowsOfCard(c) : j <= i
     IN  /\ review_log[last].rating = AGAIN
         /\ review_log[last].prev_state \in {"new", "learning", "review"}
  /\ cards[c].state # "suspended"

PlacedSinceLearning(q, p) ==
  LET before == {i \in 1..(p - 1) : cards[q[i]].state = "learning"}
      last == IF before = {} THEN 0
              ELSE CHOOSE i \in before : \A j \in before : j <= i
  IN  p - 1 - last

(* when the card at position p of the session list was placed, a Learning  *)
(* card was unplaced, resp. a card that is not Learning                    *)
LearningUnplacedAt(p) ==
  \/ merge.learning_pool # <<>>
  \/ \E i \in p..Len(merge.queue) : cards[merge.queue[i]].state = "learning"

OtherUnplacedAt(p) ==
  \/ merge.review_pool # <<>>
  \/ merge.new_pool # <<>>
  \/ \E i \in p..Len(merge.queue) : cards[merge.queue[i]].state # "learning"

PooledCards == {c \in DOMAIN cards : cards[c].state \in PoolStates}

(* C36: a merge loop that was entered returns, and while it runs every     *)
(* card of the input pools is either in one pool still or once in the      *)
(* session list; the list returned holds each card of the pools exactly    *)
(* once, and is the queue the builder is given in one piece                *)
C36_MergeReturnsEachCardOnce ==
  /\ [](merge.pc # "none" =>
          LET all == merge.queue \o merge.learning_pool \o merge.review_pool
                       \o merge.new_pool
          IN  /\ Len(all) = Cardinality(PooledCards)
              /\ SeqRange(all) = PooledCards
              /\ merge.pc = "done" =>
                   /\ Len(merge.queue) = Cardinality(PooledCards)
                   /\ SeqRange(merge.queue) = PooledCards
                   /\ merge.queue =
                        IF merge.builder = "_interleave_anki_style"
                          THEN interleave_anki_style(PoolOf("learning"),
                                 PoolOf("review"), PoolOf("new"))
                          ELSE build_anki_session_private(PoolOf("learning"),
                                 PoolOf("new"), PoolOf("review"), <<>>))
  /\ (merge.pc = "loop" ~> merge.pc = "done")

(* _build_anki_session returned six cards, two of each pool *)
C36_Witness ==
  /\ merge.pc = "done"
  /\ merge.builder = "_build_anki_session"
  /\ Len(merge.queue) = 6
  /\ \A st \in PoolStates :
       Cardinality({c \in SeqRange(merge.queue) : cards[c].state = st}) = 2


C34_WitnessLeftOut ==
  /\ session # NoSession
  /\ \E c \in DOMAIN cards :
       /\ cards[c].state = "learning"
       /\ DeckOf(c) \in session.deck_ids
       /\ cards[c].due_ts > session.now_ts + 1800
       /\ c \notin QueueCards

(* C35: a review rated Hard, Good or Easy leaves the due time of the card  *)
(* where it was or later, suspend and the session builders leave every due *)
(* time as it is, and a step that makes a due time earlier is a review of  *)
(* that card rated Again                                                   *)
C35_DueNeverEarlier ==
  [][/\ \A c \in DOMAIN cards, f \in FuzzFactors, r \in {HARD, GOOD, EASY} :
          grade(c, r, f) => cards'[c].due_ts >= cards[c].due_ts
     /\ \A c \in DOMAIN cards :
          (\/ suspend_card(c)
           \/ \E deck_ids \in SUBSET DOMAIN decks :
                build_anki_session(deck_ids) \/ build_session(deck_ids, None, None))
            => \A d \in DOMAIN cards : cards'[d].due_ts = cards[d].due_ts
     /\ \A c \in DOMAIN cards :
          cards'[c].due_ts < cards[c].due_ts =>
            \E f \in FuzzFactors : grade(c, AGAIN, f)]_vars

(* a card was graded Easy with the largest factor and, at the same moment, *)
(* Hard with the smallest: its due time is 4.788 days after now, later     *)
(* than the 4.2 days it was at                                             *)
C35_Witness ==
  \E c \in DOMAIN cards :
    /\ TotalStudied = 2
    /\ cards[c].state = "review"
    /\ cards[c].ease = 235
    /\ cards[c].interval_days = 4788
    /\ cards[c].last_review_ts = StartClock
    /\ cards[c].due_ts = StartClock + 413683

(* a card graded Easy and then Again in one minute: due four days after   *)
(* now before the second grading, it is due one minute after now           *)
C35_WitnessAgain ==
  \E c \in DOMAIN cards :
    /\ TotalStudied = 2
    /\ clock = StartClock
    /\ cards[c].state = "learning"
    /\ cards[c].lapses = 1
    /\ cards[c].interval_days >= 1000
    /\ cards[c].due_ts = StartClock + 60

(* the changes of state a card may make *)
StateChanges ==
  {<<"new", "learning">>, <<"new", "review">>, <<"learning", "review">>,
   <<"review", "learning">>}
    \cup {<<st, "suspended">> : st \in {"new", "learning", "review"}}

(* C37: in every step a card stays in its state or changes it along        *)
(* New->Learning, New->Review, Learning->Review, Review->Learning or to     *)
(* Suspended; a card that is added is New, no card becomes New again, no   *)
(* Suspended card leaves that state, and no card is removed                *)
C37_StateChanges ==
  [][/\ DOMAIN cards \subseteq DOMAIN cards'
     /\ \A c \in DOMAIN cards' \ DOMAIN cards : cards'[c].state = "new"
     /\ \A c \in DOMAIN cards :
          /\ cards'[c].state # cards[c].state =>
               <<cards[c].state, cards'[c].state>> \in StateChanges
          /\ cards'[c].state = "new" => cards[c].state = "new"
          /\ cards[c].state = "suspended" => cards'[c].state = "suspended"]_vars

(* a card lapsed from Review and is Learning, a second card is Suspended   *)
(* and was graded after that, and a third is New still, with the limits of *)
(* the deck updated                                                        *)
C37_Witness ==
  /\ TotalStudied = 2
  /\ \E c \in DOMAIN cards : cards[c].state = "learning" /\ cards[c].lapses = 1
  /\ \E c \in suspended : cards[c].state = "suspended"
  /\ \E c \in DOMAIN cards : cards[c].state = "new"
  /\ \E d \in DOMAIN decks : decks[d].new_per_day = 3

(* C38: a card in Review has an interval of one day or more and step index *)
(* 0, and a Learning card has step index 0 or 1, the indices of            *)
(* LEARNING_STEPS                                                          *)
C38_StateFields ==
  \A c \in DOMAIN cards :
    /\ cards[c].state = "review" =>
         cards[c].interval_days >= 1000 /\ cards[c].step_index = 0
    /\ cards[c].state = "learning" =>
         /\ cards[c].step_index \in {0, 1}
         /\ cards[c].step_index + 1 \in DOMAIN LEARNING_STEPS

(* a card that lapsed twice and graduated again with the smallest factor:  *)
(* its interval is the floor of one day                                    *)
C38_Witness ==
  \E c \in DOMAIN cards :
    /\ cards[c].state = "review"
    /\ cards[c].interval_days = 1000
    /\ cards[c].step_index = 0
    /\ cards[c].lapses = 2
    /\ cards[c].ease = 210

(* C39: the loop that builds a queue and grades its first card Good comes  *)
(* to an empty queue, and grades no card more than three times on the way  *)
C39_ReviewLoopEnds ==
  /\ [](\A c \in DOMAIN cards : Cardinality(RowsOfCard(c)) <= 3)
  /\ <>(session.builder = "build_session" /\ session.queue = <<>>)

(* the queue is empty after four gradings: a New card was graded three     *)
(* times, through both learning steps, and a Review card once              *)
C39_Witness ==
  /\ session.builder = "build_session"
  /\ session.queue = <<>>
  /\ Len(review_log) = 4
  /\ \E c \in DOMAIN cards :
       /\ Cardinality(RowsOfCard(c)) = 3
       /\ cards[c].state = "review"
  /\ \E i \in DOMAIN review_log : review_log[i].prev_state = "review"

(* what the gradings of New cards have added to new_studied, over all      *)
(* decks and study dates                                                   *)
TotalNewStudied ==
  SumOver(DOMAIN daily_stats,
          [k \in DOMAIN daily_stats |-> daily_stats[k].new_studied])

(* C40: each card adds at most 1 to new_studied, however the statements of *)
(* the review calls on it interleave: the counters of New cards never hold *)
(* more than the number of cards that have left New                        *)
C40_NewStudiedOncePerCard ==
  TotalNewStudied <= Cardinality({c \in DOMAIN cards : cards[c].state # "new"})

====
